---------------------------- MODULE Spec2Model ----------------------------
(***************************************************************************)
(* Model of the search and recommendation core of the personal portal     *)
(* (src/app/utils/search_engine.py) over the content table                *)
(* (src/app/models/content.py) and the routes that change it              *)
(* (src/app/routes/content_management.py, src/app/routes/content.py).     *)
(*                                                                         *)
(* Text is a sequence of one-character strings, so that lower-casing,     *)
(* tokenising and substring search are computed, not assumed.  Scores are *)
(* kept in hundredths (the code rounds them to two decimals).  Time is    *)
(* counted in half days.                                                  *)
(***************************************************************************)
EXTENDS Integers, Sequences, FiniteSets, Bags, TLC

VARIABLES
    contents,   \* the content table: a sequence of rows, row i has id i
    now,        \* the UTC clock (datetime.utcnow()), in half days
    tz,         \* the server's local-time offset (datetime.now() - utcnow())
    response,   \* what the request in progress returns (NoResponse: idle)
    tag_table,  \* the tag table: a sequence of rows (name, usage_count)
    pending,    \* creations under way: content built, not yet committed
    search_engine   \* the SearchEngine instance all requests share

vars == <<contents, now, tz, response, tag_table, pending, search_engine>>

---------------------------------------------------------------------------
(* Bounds of the model                                                    *)

MaxItems == 3       \* rows in the content table
MaxRelated == 4     \* rows in the content table under SpecRelated
MaxLimit == 3       \* largest limit of a recommendation or trending call
MaxPage == 3        \* largest page number requested
MaxPerPage == 2     \* largest page size requested
MaxTime == 3        \* the clock stops here
MaxDays == 2        \* longest trending window, in days
MaxOffset == 1      \* largest distance of the server's local time from UTC
MaxViews == 2       \* page views counted per item by ViewDetail
MaxUsage == 3       \* an edit leaves no tag's usage_count above this
MaxRequests == 2    \* creation requests served at a time
MaxHighlighted == 1 \* rows in the content table under SpecHighlight

---------------------------------------------------------------------------
(* Text                                                                   *)

Letters == {"a", "b", "c", "d", "k", "m", "n", "r", "A", "B"}
Digits == {"1"}
WordChars == Letters \cup Digits

\* str.lower() on one character
LowerChar(c) == CASE c = "A" -> "a" [] c = "B" -> "b" [] OTHER -> c

\* str.lower()
Lower(s) == [i \in DOMAIN s |-> LowerChar(s[i])]

\* Python's `k in s` for strings
IsSubstr(k, s) ==
    \E i \in 0..(Len(s) - Len(k)) : SubSeq(s, i + 1, i + Len(k)) = k

\* str.strip(): leading and trailing blanks removed
RECURSIVE LStrip(_)
LStrip(s) == IF s # <<>> /\ Head(s) = " " THEN LStrip(Tail(s)) ELSE s

RECURSIVE RStrip(_)
RStrip(s) ==
    IF s # <<>> /\ s[Len(s)] = " " THEN RStrip(SubSeq(s, 1, Len(s) - 1)) ELSE s

Strip(s) == RStrip(LStrip(s))

\* The maximal runs of characters of `chars` in s, in order; with `seps`
\* every other character is a token of its own (jieba yields blanks so).
RECURSIVE RunsFrom(_, _, _, _)
RunsFrom(s, chars, cur, seps) ==
    LET flush == IF cur = <<>> THEN <<>> ELSE <<cur>>
    IN  IF s = <<>> THEN flush
        ELSE IF Head(s) \in chars
             THEN RunsFrom(Tail(s), chars, Append(cur, Head(s)), seps)
             ELSE flush \o (IF seps THEN << <<Head(s)>> >> ELSE <<>>)
                        \o RunsFrom(Tail(s), chars, <<>>, seps)

\* jieba.lcut on text of Latin letters, digits and blanks: the runs of
\* letters and digits, and each blank by itself
lcut(s) == RunsFrom(s, WordChars, <<>>, TRUE)

\* re.findall(r'[a-zA-Z]+', s)
findall_letters(s) == RunsFrom(s, Letters, <<>>, FALSE)

\* SearchEngine.stop_words, the words of it that the model's letters spell
stop_words == { <<"a">>, <<"a", "n">>, <<"a", "n", "d">> }

\* SearchEngine._extract_keywords
extract_keywords(query) ==
    LET words == lcut(Lower(query))
        english_words == findall_letters(Lower(query))
        all_words == words \o english_words
    IN  { all_words[i] : i \in { j \in DOMAIN all_words :
                                   /\ Len(all_words[j]) > 1
                                   /\ all_words[j] \notin stop_words } }


---------------------------------------------------------------------------
(* Ordering                                                               *)

\* k1 sorts before k2 in descending lexicographic order of integer tuples
RECURSIVE KeyGreater(_, _)
KeyGreater(k1, k2) ==
    IF k1 = <<>> \/ k2 = <<>> THEN FALSE
    ELSE IF Head(k1) # Head(k2) THEN Head(k1) > Head(k2)
    ELSE KeyGreater(Tail(k1), Tail(k2))

\* x put into the descending list `sorted` behind every entry whose key is
\* not smaller: entries with equal keys keep their order of arrival
InsertDesc(sorted, x) ==
    LET before == { i \in DOMAIN sorted : ~KeyGreater(x.key, sorted[i].key) }
        n == Cardinality(before)
    IN  SubSeq(sorted, 1, n) \o <<x>> \o SubSeq(sorted, n + 1, Len(sorted))

\* list.sort(key=..., reverse=True) and ORDER BY ... DESC: a stable
\* descending sort of records by their field `key`
RECURSIVE SortDesc(_)
SortDesc(seq) ==
    IF seq = <<>> THEN <<>>
    ELSE InsertDesc(SortDesc(SubSeq(seq, 1, Len(seq) - 1)), seq[Len(seq)])

\* seq[start:end] of Python (0-based, end exclusive, clipped)
Slice(seq, start, end) ==
    LET lo == IF start > Len(seq) THEN Len(seq) ELSE start
        hi == IF end > Len(seq) THEN Len(seq) ELSE end
    IN  SubSeq(seq, lo + 1, hi)

\* The rows of a set of ids in the order an unordered SELECT returns them
\* (SQLite scans the table by rowid)
RECURSIVE IdsAscending(_)
IdsAscending(S) ==
    IF S = {} THEN <<>>
    ELSE LET m == CHOOSE x \in S : \A y \in S : x <= y
         IN  <<m>> \o IdsAscending(S \ {m})

Range(seq) == { seq[i] : i \in DOMAIN seq }

Min(a, b) == IF a < b THEN a ELSE b

---------------------------------------------------------------------------
(* The content table                                                      *)

\* A row of the content table (the columns the search core reads, and
\* the slug).  An absent summary or slug (NULL) is the empty text; tags are
\* the names of the associated Tag rows.
Row(title, summary, body, category, tags, is_published, is_featured, view_count, like_count, created_at, slug) ==
    [title |-> title, summary |-> summary, content |-> body,
     category |-> category, tags |-> tags,
     is_published |-> is_published, is_featured |-> is_featured,
     view_count |-> view_count, like_count |-> like_count,
     created_at |-> created_at, slug |-> slug]

Ids == DOMAIN contents

\* (mutation) every row, published or not
AnyRow == DOMAIN contents

\* Content.is_published == True
Published == { i \in Ids : contents[i].is_published }

\* Column.contains(kw): LIKE '%kw%', which SQLite matches without regard
\* to the case of ASCII letters; a NULL column matches nothing
SqlContains(column, kw) == IsSubstr(Lower(kw), Lower(column))

---------------------------------------------------------------------------
(* Relevance score                                                        *)

\* (mutation) the title weighs no more than the body
WeightTitleAsContent == 2

\* SearchEngine.weights, in tenths
WeightTitle == 4
WeightSummary == 3
WeightContent == 2
WeightTags == 1

\* SearchEngine.__init__: what the instance holds (the weights in tenths)
SearchEngine ==
    [stop_words |-> stop_words,
     weights |-> [title |-> WeightTitle, summary |-> WeightSummary,
                  content |-> WeightContent, tags |-> WeightTags]]

\* whole-query bonuses, featured bonus, popularity threshold and cap
BonusTitle == 20
BonusSummary == 15
BonusContent == 10
BonusFeatured == 5
PopularViews == 100
PopularCap == 10

\* (mutation) the bonuses of all the fields holding the query add up
query_bonus_added(content, original_query) ==
    LET q == Lower(original_query)
    IN  (IF IsSubstr(q, Lower(content.title)) THEN BonusTitle ELSE 0)
      + (IF content.summary # <<>> /\ IsSubstr(q, Lower(content.summary))
         THEN BonusSummary ELSE 0)
      + (IF content.content # <<>> /\ IsSubstr(q, Lower(content.content))
         THEN BonusContent ELSE 0)

\* the if / elif / elif on the whole query in _calculate_relevance_score
query_bonus(content, original_query) ==
    LET q == Lower(original_query)
    IN  IF IsSubstr(q, Lower(content.title)) THEN BonusTitle
        ELSE IF content.summary # <<>> /\ IsSubstr(q, Lower(content.summary))
             THEN BonusSummary
        ELSE IF content.content # <<>> /\ IsSubstr(q, Lower(content.content))
             THEN BonusContent
        ELSE 0

\* SearchEngine._calculate_relevance_score, in hundredths.  A field's
\* share is matches * weight * 10; view_count / 100 has two decimals, so
\* round(score, 2) changes nothing.
calculate_relevance_score(content, keywords, original_query) ==
    LET title_matches ==
            Cardinality({k \in keywords : IsSubstr(k, Lower(content.title))})
        summary_matches ==
            IF content.summary # <<>>
            THEN Cardinality({k \in keywords :
                                 IsSubstr(k, Lower(content.summary))})
            ELSE 0
        content_matches ==
            IF content.content # <<>>
            THEN Cardinality({k \in keywords :
                                 IsSubstr(k, Lower(content.content))})
            ELSE 0
        tag_matches ==
            IF content.tags # {}
            THEN Cardinality({k \in keywords :
                                 \E t \in content.tags : IsSubstr(k, Lower(t))})
            ELSE 0
        featured == IF content.is_featured THEN BonusFeatured ELSE 0
        popularity ==
            IF content.view_count > PopularViews
            THEN Min(content.view_count, PopularCap * 100)
            ELSE 0
    IN  100 * ( title_matches * WeightTitle + summary_matches * WeightSummary
              + content_matches * WeightContent + tag_matches * WeightTags
              + query_bonus(content, original_query) + featured )
        + popularity

---------------------------------------------------------------------------
(* Full-text search                                                       *)

NoCategory == "none"

SortModes == {"relevance", "date", "views", "likes"}

\* SearchEngine._empty_result
empty_result ==
    [op |-> "search", results |-> <<>>, total |-> 0, page |-> 1,
     per_page |-> 20, total_pages |-> 0, query |-> <<>>, keywords |-> {},
     category |-> NoCategory, sort_by |-> "relevance", queried |-> FALSE]

\* (mutation) a keyword in a tag name makes a candidate as well
search_candidates_with_tags(keywords, category) ==
    { i \in Published :
        /\ category # NoCategory => contents[i].category = category
        /\ \E k \in keywords :
              \/ SqlContains(contents[i].title, k)
              \/ SqlContains(contents[i].summary, k)
              \/ SqlContains(contents[i].content, k)
              \/ \E t \in contents[i].tags : SqlContains(t, k) }

\* the WHERE clause of full_text_search: published, the category when one
\* is given, and some keyword in title, summary or content
search_candidates(keywords, category) ==
    { i \in Published :
        /\ category # NoCategory => contents[i].category = category
        /\ \E k \in keywords :
              \/ SqlContains(contents[i].title, k)
              \/ SqlContains(contents[i].summary, k)
              \/ SqlContains(contents[i].content, k) }

\* (mutation) every sort is by view_count
sort_key_views(sort_by, content, score) == <<content.view_count>>

\* the key scored_results is sorted by (no key, and so no reordering, for
\* a sort_by that is none of the four)
sort_key(sort_by, content, score) ==
    CASE sort_by = "relevance" -> <<score>>
      [] sort_by = "date" -> <<content.created_at>>
      [] sort_by = "views" -> <<content.view_count>>
      [] sort_by = "likes" -> <<content.like_count>>
      [] OTHER -> <<>>

\* scored_results after the sort: every candidate with its score
scored_results(query, keywords, category, sort_by) ==
    LET all_results == IdsAscending(search_candidates(keywords, category))
        scored(i) ==
            LET score == calculate_relevance_score(contents[i], keywords, query)
            IN  [content |-> i, score |-> score,
                 key |-> sort_key(sort_by, contents[i], score)]
    IN  SortDesc([n \in DOMAIN all_results |-> scored(all_results[n])])

\* (mutation) only the blank query returns early
no_search_blank_only(query, keywords) == Strip(query) = <<>>

\* (mutation) the page count rounded down
total_pages_floor(total, per_page) == total \div per_page

\* the early returns of full_text_search: `not query.strip()`, then
\* `not keywords`
no_search(query, keywords) ==
    IF Strip(query) = <<>> THEN TRUE ELSE keywords = {}

\* 'total_pages' of the result
total_pages(total, per_page) == (total + per_page - 1) \div per_page

\* SearchEngine.full_text_search; `queried` records that the content
\* table was read
full_text_search(query, category, page, per_page, sort_by) ==
    LET keywords == extract_keywords(query)
    IN  IF no_search(query, keywords) THEN empty_result
        ELSE
          LET sorted == scored_results(query, keywords, category, sort_by)
              total == Len(sorted)
              start == (page - 1) * per_page
              end == start + per_page
              paged_results == Slice(sorted, start, end)
              result(r) == [content |-> r.content, score |-> r.score]
          IN  [op |-> "search",
               results |-> [n \in DOMAIN paged_results |->
                              result(paged_results[n])],
               total |-> total, page |-> page, per_page |-> per_page,
               total_pages |-> total_pages(total, per_page),
               query |-> query, keywords |-> keywords,
               category |-> category, sort_by |-> sort_by, queried |-> TRUE]

---------------------------------------------------------------------------
(* Related content                                                        *)

Methods == {"tags", "category", "keywords", "mixed"}

\* the ids of `sorted`, cut to the first `limit` (.limit(limit).all())
LimitIds(sorted, limit) ==
    LET rows == Slice(sorted, 0, limit)
    IN  [n \in DOMAIN rows |-> rows[n].content]

\* ORDER BY of a query over the ids of S, by key[i] descending
OrderBy(S, key) ==
    LET rows == IdsAscending(S)
    IN  SortDesc([n \in DOMAIN rows |->
                    [content |-> rows[n], key |-> key[rows[n]]]])

\* SearchEngine._get_related_by_tags
get_related_by_tags(src, limit) ==
    LET content == contents[src]
        shared(i) == Cardinality(contents[i].tags \cap content.tags)
        key(i) == <<shared(i), contents[i].created_at>>
        related == { i \in Published : i # src /\ shared(i) > 0 }
    IN  IF content.tags = {} THEN <<>>
        ELSE LimitIds(OrderBy(related, [i \in related |-> key(i)]), limit)

\* ORDER BY view_count DESC, created_at DESC
views_then_date(i) == <<contents[i].view_count, contents[i].created_at>>

\* (mutation) the item itself is not left out
get_related_by_category_with_self(src, limit) ==
    LET related == { i \in Published :
                       contents[i].category = contents[src].category }
    IN  LimitIds(OrderBy(related, [i \in related |-> views_then_date(i)]),
                      limit)

\* SearchEngine._get_related_by_category
get_related_by_category(src, limit) ==
    LET related == { i \in Published :
                       i # src /\ contents[i].category = contents[src].category }
    IN  LimitIds(OrderBy(related, [i \in related |-> views_then_date(i)]),
                      limit)

\* the stop words of jieba's TF-IDF extractor that the model's letters spell
tfidf_stop_words == { <<"a", "n">>, <<"a", "n", "d">> }

\* jieba.analyse.extract_tags(text, topK=5): the words of two or more
\* characters that are no stop word, the 5 weightiest of them.  The texts
\* of the model hold fewer than 5 words, so all of them.
extract_tags(text) ==
    LET words == lcut(text)
    IN  { words[i] : i \in { j \in DOMAIN words :
                               /\ Len(Strip(words[j])) >= 2
                               /\ Lower(words[j]) \notin tfidf_stop_words } }

\* SearchEngine._get_related_by_keywords
get_related_by_keywords(src, limit) ==
    LET content == contents[src]
        keywords == extract_tags(content.title \o <<" ">> \o content.content)
        related == { i \in Published :
                       /\ i # src
                       /\ \E k \in keywords :
                             \/ SqlContains(contents[i].title, k)
                             \/ SqlContains(contents[i].content, k) }
    IN  IF content.content = <<>> THEN <<>>
        ELSE IF keywords = {} THEN <<>>
        ELSE LimitIds(OrderBy(related, [i \in related |-> views_then_date(i)]),
                      limit)

\* the weights of the three signals in the mixed recommendation
ScoreTags == 10
ScoreCategory == 5
ScoreKeywords == 3

\* (mutation) the signals are not added: the strongest one counts
RECURSIVE AddSignalMax(_, _, _)
AddSignalMax(related_contents, items, score) ==
    IF items = <<>> THEN related_contents
    ELSE LET item == Head(items)
             at == { i \in DOMAIN related_contents :
                       related_contents[i].content = item }
             next ==
               IF at # {}
               THEN related_contents
               ELSE Append(related_contents,
                           [content |-> item, score |-> score])
         IN  AddSignalMax(next, Tail(items), score)

\* (mutation) a later signal replaces the score instead of adding to it
RECURSIVE AddSignalOverwrite(_, _, _)
AddSignalOverwrite(related_contents, items, score) ==
    IF items = <<>> THEN related_contents
    ELSE LET item == Head(items)
             at == { i \in DOMAIN related_contents :
                       related_contents[i].content = item }
             next ==
               IF at # {}
               THEN [i \in DOMAIN related_contents |->
                       IF i \in at
                       THEN [related_contents[i] EXCEPT !.score = score]
                       ELSE related_contents[i]]
               ELSE Append(related_contents,
                           [content |-> item, score |-> score])
         IN  AddSignalOverwrite(next, Tail(items), score)

\* one loop of _get_related_mixed over a list of items: an item already in
\* related_contents gains `score`, a new one is entered with it
RECURSIVE AddSignal(_, _, _)
AddSignal(related_contents, items, score) ==
    IF items = <<>> THEN related_contents
    ELSE LET item == Head(items)
             at == { i \in DOMAIN related_contents :
                       related_contents[i].content = item }
             next ==
               IF at # {}
               THEN [i \in DOMAIN related_contents |->
                       IF i \in at
                       THEN [related_contents[i] EXCEPT !.score = @ + score]
                       ELSE related_contents[i]]
               ELSE Append(related_contents,
                           [content |-> item, score |-> score])
         IN  AddSignal(next, Tail(items), score)

\* related_contents of _get_related_mixed before the sort, in the order
\* the dict was filled
mixed_scores(src, limit) ==
    LET tag_related == get_related_by_tags(src, limit * 2)
        category_related == get_related_by_category(src, limit)
        keyword_related == get_related_by_keywords(src, limit)
    IN  AddSignal(AddSignal(AddSignal(<<>>, tag_related, ScoreTags),
                            category_related, ScoreCategory),
                  keyword_related, ScoreKeywords)

\* SearchEngine._get_related_mixed
get_related_mixed(src, limit) ==
    LET related_contents == mixed_scores(src, limit)
        sorted_related ==
            SortDesc([n \in DOMAIN related_contents |->
                        [content |-> related_contents[n].content,
                         key |-> <<related_contents[n].score>>]])
    IN  LimitIds(sorted_related, limit)

\* SearchEngine.get_related_content
get_related_content(src, limit, method) ==
    CASE method = "tags" -> get_related_by_tags(src, limit)
      [] method = "category" -> get_related_by_category(src, limit)
      [] method = "keywords" -> get_related_by_keywords(src, limit)
      [] OTHER -> get_related_mixed(src, limit)

---------------------------------------------------------------------------
(* Trending content                                                       *)

TicksPerDay == 2

\* since_date of get_trending_content: datetime.now() is the server's local
\* time, created_at is stamped with datetime.utcnow()
since_date(days) == (now + tz) - days * TicksPerDay

\* SearchEngine.get_trending_content
get_trending_content(days, limit) ==
    LET results == { i \in Published :
                       contents[i].created_at >= since_date(days) }
    IN  LimitIds(OrderBy(results, [i \in results |-> views_then_date(i)]),
                 limit)

---------------------------------------------------------------------------
(* Category statistics                                                    *)

\* the view_count of the rows together
RECURSIVE total_views(_)
total_views(ids) ==
    IF ids = {} THEN 0
    ELSE LET i == CHOOSE x \in ids : TRUE
         IN  contents[i].view_count + total_views(ids \ {i})

\* SearchEngine.get_category_stats: for every category with published
\* rows their number and round(avg(view_count), 1), in tenths (a tie is
\* a quarter or three quarters, which round() takes to the even tenth).
\* The order of the list, by falling count, is left out.
get_category_stats ==
    { LET rows == { i \in Published : contents[i].category = category }
          views == 10 * total_views(rows)
          count == Cardinality(rows)
          down == views \div count
          rest == views % count
      IN  [category |-> category, count |-> count,
           avg_views |-> IF 2 * rest < count THEN down
                         ELSE IF 2 * rest > count THEN down + 1
                         ELSE IF down % 2 = 0 THEN down ELSE down + 1]
      : category \in { contents[i].category : i \in Published } }

---------------------------------------------------------------------------
(* The tag table                                                          *)

\* Tag.query.filter_by(name=name).first(): the rows of that name
tag_rows(table, name) == { i \in DOMAIN table : table[i].name = name }

\* the usage_count of the tag of that name (0: no such tag)
usage_count(table, name) ==
    IF tag_rows(table, name) = {} THEN 0
    ELSE table[CHOOSE i \in tag_rows(table, name) : TRUE].usage_count

\* (mutation) a tag that exists is adopted without being counted
use_tag_uncounted(table, name) ==
    IF tag_rows(table, name) = {}
    THEN Append(table, [name |-> name, usage_count |-> 1])
    ELSE table

\* one turn of the loop of Content.update_tags: the tag is created if there
\* is none of that name, and its usage_count goes up by one
use_tag(table, name) ==
    IF tag_rows(table, name) = {}
    THEN Append(table, [name |-> name, usage_count |-> 1])
    ELSE [i \in DOMAIN table |->
            IF i \in tag_rows(table, name)
            THEN [table[i] EXCEPT !.usage_count = @ + 1]
            ELSE table[i]]

\* Content.update_tags(tag_names), its effect on the tag table; the item's
\* tags become tag_names (self.tags.clear(), then append).  The names are
\* taken one by one in the order of the list, here a fixed order.
RECURSIVE update_tags(_, _)
update_tags(table, tag_names) ==
    IF tag_names = {} THEN table
    ELSE LET name == CHOOSE n \in tag_names : TRUE
         IN  update_tags(use_tag(table, name), tag_names \ {name})

\* Tag(name=...) rows added for the names that have none (usage_count is
\* left at the column default, 0)
RECURSIVE add_tags(_, _)
add_tags(table, tag_names) ==
    IF tag_names = {} THEN table
    ELSE LET name == CHOOSE n \in tag_names : TRUE
             next == IF tag_rows(table, name) = {}
                     THEN Append(table, [name |-> name, usage_count |-> 0])
                     ELSE table
         IN  add_tags(next, tag_names \ {name})

\* func.count(content_tags.c.content_id) of one tag: the rows of the
\* association table that join it to a content row
association_count(rows, name) ==
    Cardinality({ i \in DOMAIN rows : name \in rows[i].tags })

\* (mutation) the counts are reset and not filled in again
update_usage_counts_reset(table, rows) ==
    [i \in DOMAIN table |-> [table[i] EXCEPT !.usage_count = 0]]

\* Tag.update_usage_counts: every usage_count reset to 0, then set to the
\* count of the tag's rows in content_tags
update_usage_counts(table, rows) ==
    [i \in DOMAIN table |->
       [table[i] EXCEPT !.usage_count = association_count(rows, table[i].name)]]

\* Tag.cleanup_unused_tags: Tag.query.filter_by(usage_count=0)
unused_tags(table) ==
    { table[i].name : i \in { j \in DOMAIN table : table[j].usage_count = 0 } }

---------------------------------------------------------------------------
(* Search suggestions                                                     *)

\* (mutation) the tag query is given the whole limit
tag_limit_whole(limit, found) == limit

\* .limit(limit - len(suggestions)) of the tag query
tag_limit(limit, found) == limit - found

\* SearchEngine.get_search_suggestions: each suggestion with its text, its
\* type and the id of the row it came from (the url names it)
get_search_suggestions(query, limit) ==
    IF Len(query) < 2 THEN <<>>
    ELSE
      LET titled == { i \in Published : SqlContains(contents[i].title, query) }
          title_matches ==
              LimitIds(OrderBy(titled,
                               [i \in titled |-> <<contents[i].view_count>>]),
                       limit)
          suggestions ==
              [n \in DOMAIN title_matches |->
                 [text |-> contents[title_matches[n]].title, type |-> "title",
                  id |-> title_matches[n]]]
          tagged == { i \in DOMAIN tag_table :
                        SqlContains(tag_table[i].name, query) }
          tag_matches ==
              LimitIds(OrderBy(tagged,
                               [i \in tagged |-> <<tag_table[i].usage_count>>]),
                       tag_limit(limit, Len(suggestions)))
      IN  IF Len(suggestions) < limit
          THEN suggestions \o
               [n \in DOMAIN tag_matches |->
                  [text |-> tag_table[tag_matches[n]].name, type |-> "tag",
                   id |-> tag_matches[n]]]
          ELSE suggestions

---------------------------------------------------------------------------
(* SEO analysis                                                           *)

\* The texts analysed are hundreds of characters long, so they are scanned
\* by position.  NL is the line feed and Han one Chinese character.
NL == "\n"
Han == "han"
Whitespace == {" ", NL}

\* unit repeated n times
Repeat(unit, n) ==
    [i \in 1..(n * Len(unit)) |-> unit[((i - 1) % Len(unit)) + 1]] \o <<>>

\* str.strip() by position: the first and the last character of s[a..b]
\* that is not white space (0 when there is none)
FirstInk(s, a, b) ==
    LET ink == { p \in a..b : s[p] \notin Whitespace }
    IN  IF ink = {} THEN 0 ELSE CHOOSE p \in ink : \A q \in ink : p <= q

LastInk(s, a, b) ==
    LET ink == { p \in a..b : s[p] \notin Whitespace }
    IN  IF ink = {} THEN 0 ELSE CHOOSE p \in ink : \A q \in ink : p >= q

\* The maximal runs of characters of `chars` in s: where each starts, and
\* the run that starts there
RunStarts(s, chars) ==
    { i \in DOMAIN s : s[i] \in chars /\ (i = 1 \/ s[i - 1] \notin chars) }

RunsOf(s, chars) ==
    [i \in RunStarts(s, chars) |->
       SubSeq(s, i, CHOOSE j \in i..Len(s) :
                      /\ j = Len(s) \/ s[j + 1] \notin chars
                      /\ \A k \in i..j : s[k] \in chars)]

\* The words of a family of runs that are at least `least` long and no
\* stop word, each with the number of times it occurs
WordBag(runs, least, stop) ==
    LET kept == { i \in DOMAIN runs :
                    Len(runs[i]) >= least /\ runs[i] \notin stop }
    IN  [w \in { runs[i] : i \in kept } |->
           Cardinality({ i \in kept : runs[i] = w })]

\* The characters jieba keeps together with letters and digits in one
\* block (re_han_default); a run of them is one token
JoinChars == {"+", "#", "&", ".", "_", "-"}

\* \w of Python's re
RegexWordChars == Letters \cup Digits \cup {"_", Han}

\* SEOAnalyzer.stop_words, the words of it that the model's letters spell
seo_stop_words == { <<"a">>, <<"a", "n">>, <<"a", "n", "d">> }

\* SEOAnalyzer._extract_words, as a bag: the list's order is never used.
\* jieba.lcut yields the runs of letters and digits, the runs of joining
\* characters, and every other character by itself (a Chinese character of
\* the model stands between blanks; no text has a digit after a full stop).
\* r'\b[a-zA-Z]{2,}\b' finds the runs of \w characters that are letters
\* throughout.
seo_extract_words(text) ==
    LET tokens == RunsOf(text, WordChars) @@ RunsOf(text, JoinChars)
        chinese_words == WordBag(tokens, 2, seo_stop_words)
        found == RunsOf(Lower(text), RegexWordChars)
        letters_only == { i \in DOMAIN found :
                            \A k \in DOMAIN found[i] : found[i][k] \in Letters }
        english_words ==
            WordBag([i \in letters_only |-> found[i]], 2, seo_stop_words)
    IN  chinese_words (+) english_words

\* SEOAnalyzer._has_meaningful_keywords
has_meaningful_keywords(text) ==
    LET words == seo_extract_words(Lower(text))
        meaningful_words ==
            { w \in DOMAIN words : Len(w) > 2 /\ w \notin seo_stop_words }
    IN  BagCardinality([w \in meaningful_words |-> words[w]]) >= 2

\* What one step of the analysis adds to the report
Part(score, issues, recommendations) ==
    [score |-> score, issues |-> issues, recommendations |-> recommendations]

\* SEOAnalyzer._analyze_title
analyze_title(title) ==
    IF title = <<>>
    THEN Part(0, <<"no title">>, <<"add a title">>)
    ELSE LET title_len == Len(title)
             length == IF 10 <= title_len /\ title_len <= 60
                         THEN Part(15, <<>>, <<>>)
                       ELSE IF 60 < title_len /\ title_len <= 70
                         THEN Part(12, <<"title rather long">>, <<>>)
                       ELSE IF title_len < 10
                         THEN Part(5, <<"title too short">>, <<>>)
                       ELSE Part(8, <<"title too long">>, <<>>)
         IN  IF has_meaningful_keywords(title)
             THEN Part(length.score + 5, length.issues, <<>>)
             ELSE Part(length.score, length.issues, <<"more keywords in title">>)

\* SEOAnalyzer._analyze_meta_description
analyze_meta_description(meta_description) ==
    IF meta_description = <<>>
    THEN Part(0, <<"no description">>, <<"add a description">>)
    ELSE LET desc_len == Len(meta_description)
         IN  IF 120 <= desc_len /\ desc_len <= 160
               THEN Part(15, <<>>, <<>>)
             ELSE IF 160 < desc_len /\ desc_len <= 200
               THEN Part(12, <<"description rather long">>, <<>>)
             ELSE IF desc_len < 120
               THEN Part(8, <<"description too short">>, <<>>)
             ELSE Part(5, <<"description too long">>, <<>>)

\* Where re.findall(r'\[.*?\]\(.*?\)') finds its first link at or after
\* `from`: <<first, last>>, or <<>>.  The dot matches no line feed.
NoBreak(s, a, b) == \A p \in a..b : s[p] # NL

LinkFrom(s, from) ==
    LET closes(i) == { j \in (i + 1)..(Len(s) - 2) :
                         /\ s[j] = "]" /\ s[j + 1] = "("
                         /\ NoBreak(s, i + 1, j - 1)
                         /\ \E k \in (j + 2)..Len(s) :
                               s[k] = ")" /\ NoBreak(s, j + 2, k - 1) }
        opens == { i \in from..Len(s) : s[i] = "[" /\ closes(i) # {} }
    IN  IF opens = {} THEN <<>>
        ELSE LET i == CHOOSE x \in opens : \A y \in opens : x <= y
                 j == CHOOSE x \in closes(i) : \A y \in closes(i) : x <= y
                 k == CHOOSE x \in (j + 2)..Len(s) :
                        /\ s[x] = ")"
                        /\ \A y \in (j + 2)..(x - 1) : s[y] # ")"
             IN  <<i, k>>

RECURSIVE link_count(_, _)
link_count(s, from) ==
    LET found == LinkFrom(s, from)
    IN  IF found = <<>> THEN 0 ELSE 1 + link_count(s, found[2] + 1)

\* SEOAnalyzer._analyze_content_structure
analyze_content_structure(content) ==
    LET s == content
        has_h1 == \E i \in 1..(Len(s) - 1) :
                     s[i] = "#" /\ s[i + 1] \in Whitespace
        has_h2 == \E i \in 1..(Len(s) - 2) :
                     s[i] = "#" /\ s[i + 1] = "#" /\ s[i + 2] \in Whitespace
        \* r'^\s*[-*+]\s+.*' with re.MULTILINE
        has_lists == \E i \in 1..(Len(s) - 1) :
                        /\ s[i] \in {"-", "*", "+"}
                        /\ s[i + 1] \in Whitespace
                        /\ \E p \in 1..i :
                              /\ p = 1 \/ s[p - 1] = NL
                              /\ \A q \in p..(i - 1) : s[q] \in Whitespace
        links == link_count(s, 1)
        h1 == IF has_h1 THEN Part(3, <<>>, <<>>)
                        ELSE Part(0, <<"no h1">>, <<>>)
        h2 == IF has_h2 THEN Part(2, <<>>, <<>>)
                        ELSE Part(0, <<>>, <<"add h2">>)
        lists == IF has_lists THEN Part(2, <<>>, <<>>)
                              ELSE Part(0, <<>>, <<"use lists">>)
        link == IF links > 0
                THEN Part(2, IF links > 10 THEN <<"too many links">> ELSE <<>>,
                          <<>>)
                ELSE Part(0, <<>>, <<"add links">>)
    IN  Part(h1.score + h2.score + lists.score + link.score,
             h1.issues \o link.issues,
             h2.recommendations \o lists.recommendations
                \o link.recommendations)

\* The images re.findall(r'!\[([^\]]*)\]\(([^)]+)\)') finds: where each
\* starts, and where its alt text ends (the texts of the model do not put
\* one image inside another)
Images(s) ==
    LET close(i) == CHOOSE j \in (i + 2)..(Len(s) + 1) :
                       /\ j = Len(s) + 1 \/ s[j] = "]"
                       /\ \A p \in (i + 2)..(j - 1) : s[p] # "]"
        shut(j) == CHOOSE k \in (j + 2)..(Len(s) + 1) :
                       /\ k = Len(s) + 1 \/ s[k] = ")"
                       /\ \A p \in (j + 2)..(k - 1) : s[p] # ")"
        starts == { i \in 1..(Len(s) - 1) :
                      /\ s[i] = "!" /\ s[i + 1] = "["
                      /\ close(i) + 1 <= Len(s)
                      /\ s[close(i) + 1] = "("
                      /\ shut(close(i)) <= Len(s)
                      /\ shut(close(i)) >= close(i) + 3 }
    IN  [i \in starts |-> close(i)]

\* SEOAnalyzer._analyze_images
analyze_images(content) ==
    LET images == Images(content)
        images_with_alt ==
            { i \in DOMAIN images : FirstInk(content, i + 2, images[i] - 1) # 0 }
    IN  IF DOMAIN images # {}
        THEN IF images_with_alt = DOMAIN images
             THEN Part(5, <<>>, <<>>)
             ELSE Part(3, <<"images without alt">>, <<>>)
        ELSE Part(0, <<>>, <<"add images">>)

\* (mutation) a body step that reports nothing
analyze_content_body_silent(content) ==
    Part(0, <<>>, <<>>) @@ [length |-> "none"]

\* SEOAnalyzer._analyze_content_body; length is content_analysis['length']
analyze_content_body(content) ==
    IF content = <<>>
    THEN Part(0, <<"no content">>, <<>>) @@ [length |-> "none"]
    ELSE LET char_count ==
                 Cardinality({ p \in DOMAIN content : content[p] \notin Whitespace })
             length == IF char_count >= 500 THEN "good"
                       ELSE IF char_count >= 300 THEN "adequate"
                       ELSE "too_short"
             base == CASE length = "good" -> Part(10, <<>>, <<>>)
                       [] length = "adequate" -> Part(8, <<>>, <<>>)
                       [] OTHER -> Part(5, <<"content too short">>, <<>>)
             structure == analyze_content_structure(content)
             image == analyze_images(content)
         IN  Part(base.score + structure.score + image.score,
                  base.issues \o structure.issues \o image.issues,
                  structure.recommendations \o image.recommendations)
             @@ [length |-> length]

\* round(count / total_words * 100, 2), in hundredths
density(count, total_words) ==
    LET twice == (2 * count * 10000) \div total_words
        exact == (2 * count * 10000) % total_words = 0
        down == twice \div 2
    IN  IF twice % 2 = 0 THEN down
        ELSE IF exact /\ down % 2 = 0 THEN down
        ELSE down + 1

\* (mutation) a density of exactly 0.5 is too low as well
analyze_keywords_above_half(content, title) ==
    LET full_text == title \o <<" ">> \o content
        words == seo_extract_words(Lower(full_text))
        total_words == BagCardinality(words)
        keywords == { w \in DOMAIN words :
                        Len(w) > 2 /\ w \notin seo_stop_words }
        densities == { density(words[w], total_words) : w \in keywords }
        max_density == CHOOSE d \in densities : \A e \in densities : e <= d
    IN  IF DOMAIN words = {} THEN Part(0, <<>>, <<>>)
        ELSE IF keywords = {} THEN Part(0, <<"no keywords">>, <<>>)
        ELSE IF max_density > 500 THEN Part(10, <<"keyword stuffing">>, <<>>)
        ELSE IF max_density <= 50 THEN Part(10, <<>>, <<"use keywords more">>)
        ELSE Part(20, <<>>, <<>>)

\* SEOAnalyzer._analyze_keywords (the texts of the model hold fewer than
\* twenty different words, so most_common(20) is all of them)
analyze_keywords(content, title) ==
    LET full_text == title \o <<" ">> \o content
        words == seo_extract_words(Lower(full_text))
        total_words == BagCardinality(words)
        keywords == { w \in DOMAIN words :
                        Len(w) > 2 /\ w \notin seo_stop_words }
        densities == { density(words[w], total_words) : w \in keywords }
        max_density == CHOOSE d \in densities : \A e \in densities : e <= d
    IN  IF DOMAIN words = {} THEN Part(0, <<>>, <<>>)
        ELSE IF keywords = {} THEN Part(0, <<"no keywords">>, <<>>)
        ELSE IF max_density > 500 THEN Part(10, <<"keyword stuffing">>, <<>>)
        ELSE IF max_density < 50 THEN Part(10, <<>>, <<"use keywords more">>)
        ELSE Part(20, <<>>, <<>>)

\* The marks at which re.split cuts the sentences, the Latin ones
SentenceEnds == {".", "!", "?"}

\* SEOAnalyzer._analyze_readability
analyze_readability(content) ==
    LET s == content
        starts == { i \in DOMAIN s :
                      s[i] \notin SentenceEnds
                      /\ (i = 1 \/ s[i - 1] \in SentenceEnds) }
        last(i) == CHOOSE j \in i..Len(s) :
                      /\ j = Len(s) \/ s[j + 1] \in SentenceEnds
                      /\ \A k \in i..j : s[k] \notin SentenceEnds
        sentences == { i \in starts : FirstInk(s, i, last(i)) # 0 }
        \* sum(len(s) for s in sentences), the sentences stripped
        total_length ==
            Cardinality(UNION { FirstInk(s, i, last(i))..LastInk(s, i, last(i)) :
                                 i \in sentences })
        sentence == IF total_length <= 20 * Cardinality(sentences)
                      THEN Part(5, <<>>, <<>>)
                    ELSE IF total_length <= 30 * Cardinality(sentences)
                      THEN Part(3, <<>>, <<>>)
                    ELSE Part(0, <<"sentences too long">>, <<>>)
        \* content.split('\n\n'), the blank pieces dropped: a gap of white
        \* space between two inked characters parts two paragraphs when
        \* it holds two line feeds in a row
        gaps == RunsOf(s, Whitespace)
        breaks == { i \in DOMAIN gaps :
                      /\ i > 1 /\ i + Len(gaps[i]) <= Len(s)
                      /\ \E k \in 1..(Len(gaps[i]) - 1) :
                            gaps[i][k] = NL /\ gaps[i][k + 1] = NL }
        paragraph_count == 1 + Cardinality(breaks)
        paragraph == IF paragraph_count >= 3 THEN Part(3, <<>>, <<>>)
                     ELSE Part(0, <<>>, <<"more paragraphs">>)
        \* the runs of four and more Chinese characters, and the characters
        han == RunsOf(s, {Han})
        complex_words == Cardinality({ i \in DOMAIN han : Len(han[i]) >= 4 })
        total_chars == Cardinality({ p \in DOMAIN s : s[p] = Han })
        complexity == IF total_chars = 0 THEN Part(0, <<>>, <<>>)
                      ELSE IF 10 * complex_words < total_chars
                        THEN Part(2, <<>>, <<>>)
                      ELSE Part(0, <<>>, <<"simpler words">>)
    IN  IF content = <<>> \/ sentences = {} THEN Part(0, <<>>, <<>>)
        ELSE Part(sentence.score + paragraph.score + complexity.score,
                  sentence.issues,
                  paragraph.recommendations \o complexity.recommendations)

\* (mutation) a base score that lets the total pass max_score
technical_base_score_doubled == 20

\* SEOAnalyzer._analyze_technical_seo: the score it starts from
technical_base_score == 10

\* SEOAnalyzer._analyze_technical_seo
analyze_technical_seo(url) ==
    LET clean == Letters \cup Digits \cup {"-", "_", "/"}
    IN  IF url = <<>> THEN Part(technical_base_score, <<>>, <<>>)
        ELSE Part(technical_base_score,
                  IF Len(url) <= 100 THEN <<>> ELSE <<"url too long">>,
                  IF \E p \in DOMAIN url : url[p] \in clean
                  THEN <<>> ELSE <<"cleaner url">>)

\* (mutation) grade B only from 75 points on
grade_of_late_b(score) ==
    IF score >= 80 THEN "A" ELSE IF score >= 75 THEN "B"
    ELSE IF score >= 60 THEN "C" ELSE "D"

\* SEOAnalyzer._generate_overall_recommendations: the grade
grade_of(score) ==
    IF score >= 80 THEN "A" ELSE IF score >= 70 THEN "B"
    ELSE IF score >= 60 THEN "C" ELSE "D"

\* SEOAnalyzer._generate_overall_recommendations: the priority list
priority_recommendations(score, title, meta_description, length) ==
    IF score < 70
    THEN (IF title = <<>> THEN <<"add a catching title">> ELSE <<>>)
         \o (IF meta_description = <<>> THEN <<"write a description">> ELSE <<>>)
         \o (IF length = "too_short" THEN <<"add content">> ELSE <<>>)
    ELSE <<>>

\* SEOAnalyzer.analyze_content
analyze_content(content, title, meta_description, url) ==
    LET t == analyze_title(title)
        m == analyze_meta_description(meta_description)
        c == analyze_content_body(content)
        k == analyze_keywords(content, title)
        r == analyze_readability(content)
        x == analyze_technical_seo(url)
        score == t.score + m.score + c.score + k.score + r.score + x.score
    IN  [score |-> score,
         max_score |-> 100,
         issues |-> t.issues \o m.issues \o c.issues \o k.issues
                      \o r.issues \o x.issues,
         recommendations |->
             t.recommendations \o m.recommendations \o c.recommendations
                \o k.recommendations \o r.recommendations
                \o x.recommendations,
         grade |-> grade_of(score),
         priority_recommendations |->
             priority_recommendations(score, title, meta_description, c.length)]

---------------------------------------------------------------------------
(* Highlights of the search results                                       *)

\* the markers re.sub puts around a match
MarkOpen == <<"<", "m", "a", "r", "k", ">">>
MarkClose == <<"<", "/", "m", "a", "r", "k", ">">>

\* re.sub(f'({re.escape(keyword)})', r'<mark>\1</mark>', text,
\* flags=re.IGNORECASE) from position i on: the matches are taken from the
\* left and do not overlap (the keywords are in lower case)
RECURSIVE mark_from(_, _, _)
mark_from(text, keyword, i) ==
    LET n == Len(keyword)
        found == { p \in i..(Len(text) - n + 1) :
                     Lower(SubSeq(text, p, p + n - 1)) = keyword }
        p == CHOOSE first \in found : \A q \in found : first <= q
    IN  IF found = {} THEN SubSeq(text, i, Len(text))
        ELSE SubSeq(text, i, p - 1)
               \o MarkOpen \o SubSeq(text, p, p + n - 1) \o MarkClose
               \o mark_from(text, keyword, p + n)

\* the loop `for keyword in keywords` around re.sub: each keyword is
\* marked in what the keywords before it left
RECURSIVE mark_keywords(_, _)
mark_keywords(text, keywords) ==
    IF keywords = <<>> THEN text
    ELSE mark_keywords(mark_from(text, Head(keywords), 1), Tail(keywords))

\* re.split(r'[...]', content_text): what stands between the sentence
\* marks, the empty pieces included
split_sentences(content_text) ==
    LET s == content_text
        ends == { p \in DOMAIN s : s[p] \in SentenceEnds }
        cut(n) == IF n = 0 THEN 0
                  ELSE IF n > Cardinality(ends) THEN Len(s) + 1
                  ELSE CHOOSE p \in ends :
                          Cardinality({ q \in ends : q < p }) = n - 1
    IN  [n \in 1..(Cardinality(ends) + 1) |->
            SubSeq(s, cut(n - 1) + 1, cut(n) - 1)]

\* keyword_count of one sentence: the keywords that the sentence holds
keyword_count(sentence, keywords) ==
    Cardinality({ k \in Range(keywords) : IsSubstr(k, Lower(sentence)) })

\* (mutation) the last of the sentences with the most keywords is kept
best_sentence_last(sentences, keywords) ==
    LET count(n) == keyword_count(sentences[n], keywords)
        best == { n \in DOMAIN sentences :
                    /\ count(n) > 0
                    /\ \A m \in DOMAIN sentences : count(m) <= count(n) }
    IN  IF best = {} THEN sentences[1]
        ELSE sentences[CHOOSE n \in best : \A m \in best : m <= n]

\* the loop over the sentences in _generate_content_snippet, which keeps a
\* sentence when it holds more keywords than every one before it, and the
\* first sentence when none holds a keyword
best_sentence(sentences, keywords) ==
    LET count(n) == keyword_count(sentences[n], keywords)
        best == { n \in DOMAIN sentences :
                    /\ count(n) > 0
                    /\ \A m \in DOMAIN sentences : count(m) <= count(n) }
    IN  IF best = {} THEN sentences[1]
        ELSE sentences[CHOOSE n \in best : \A m \in best : n <= m]

\* max_length of _generate_content_snippet
snippet_max_length == 200

\* SearchEngine._generate_content_snippet
generate_content_snippet(content_text, keywords) ==
    LET chosen == best_sentence(split_sentences(content_text), keywords)
        cut == IF Len(chosen) > snippet_max_length
               THEN SubSeq(chosen, 1, snippet_max_length) \o <<".", ".", ".">>
               ELSE chosen
    IN  mark_keywords(cut, keywords)

\* SearchEngine._generate_highlight: the title, the summary if there is
\* one, the snippet if there is a body
generate_highlight(content, keywords) ==
    [title |-> mark_keywords(content.title, keywords)]
    @@ (IF content.summary # <<>>
        THEN [summary |-> mark_keywords(content.summary, keywords)]
        ELSE <<>>)
    @@ (IF content.content # <<>>
        THEN [snippet |-> generate_content_snippet(content.content, keywords)]
        ELSE <<>>)

---------------------------------------------------------------------------
(* Slugs (src/app/utils/slug_generator.py)                                *)

LowerLetters ==
    {"a", "b", "c", "d", "e", "f", "g", "h", "i", "j", "k", "l", "m",
     "n", "o", "p", "q", "r", "s", "t", "u", "v", "w", "x", "y", "z"}
UpperLetters ==
    {"A", "B", "C", "D", "E", "F", "G", "H", "I", "J", "K", "L", "M",
     "N", "O", "P", "Q", "R", "S", "T", "U", "V", "W", "X", "Y", "Z"}
DecimalDigits == <<"0", "1", "2", "3", "4", "5", "6", "7", "8", "9">>

\* Two Chinese characters, named by their reading: U+7684, a stop word,
\* and U+4E2D; and the trade mark sign U+2122, one character
HanDe == "han:de"
HanZhong == "han:zhong"
HanChars == {HanDe, HanZhong}
TradeMark == "tm"

\* pypinyin.lazy_pinyin on one character
lazy_pinyin(c) == IF c = HanDe THEN <<"d", "e">> ELSE <<"z", "h", "o", "n", "g">>

\* str.join
RECURSIVE Join(_, _)
Join(parts, sep) ==
    IF parts = <<>> THEN <<>>
    ELSE IF Len(parts) = 1 THEN parts[1]
    ELSE parts[1] \o sep \o Join(Tail(parts), sep)

\* str.split on one character
RECURSIVE Split(_, _)
Split(s, sep) ==
    IF \A i \in DOMAIN s : s[i] # sep THEN <<s>>
    ELSE LET at == CHOOSE i \in DOMAIN s :
                      s[i] = sep /\ \A k \in 1..(i - 1) : s[k] # sep
         IN  <<SubSeq(s, 1, at - 1)>> \o Split(SubSeq(s, at + 1, Len(s)), sep)

\* str.replace
RECURSIVE Replace(_, _, _)
Replace(s, old, new) ==
    IF Len(s) < Len(old) THEN s
    ELSE IF SubSeq(s, 1, Len(old)) = old
         THEN new \o Replace(SubSeq(s, Len(old) + 1, Len(s)), old, new)
         ELSE <<Head(s)>> \o Replace(Tail(s), old, new)

\* one str.replace after the other, for each pair of a list
RECURSIVE ReplaceEach(_, _)
ReplaceEach(text, pairs) ==
    IF pairs = <<>> THEN text
    ELSE ReplaceEach(Replace(text, Head(pairs)[1], Head(pairs)[2]), Tail(pairs))

\* str.rstrip('-')
RECURSIVE RStripDash(_)
RStripDash(s) ==
    IF s # <<>> /\ s[Len(s)] = "-"
    THEN RStripDash(SubSeq(s, 1, Len(s) - 1)) ELSE s

\* SlugGenerator.common_mappings, the Latin ones, in the order of the dict
common_mappings ==
    << << <<"j", "a", "v", "a", "s", "c", "r", "i", "p", "t">>,
          <<"j", "s">> >>,
       << <<"t", "y", "p", "e", "s", "c", "r", "i", "p", "t">>,
          <<"t", "s">> >>,
       << <<"p", "y", "t", "h", "o", "n">>,
          <<"p", "y">> >>,
       << <<"a", "r", "t", "i", "f", "i", "c", "i", "a", "l", "-", "i",
           "n", "t", "e", "l", "l", "i", "g", "e", "n", "c", "e">>,
          <<"a", "i">> >>,
       << <<"m", "a", "c", "h", "i", "n", "e", "-", "l", "e", "a", "r",
           "n", "i", "n", "g">>,
          <<"m", "l">> >>,
       << <<"d", "e", "e", "p", "-", "l", "e", "a", "r", "n", "i", "n",
           "g">>,
          <<"d", "l">> >>,
       << <<"a", "p", "p", "l", "i", "c", "a", "t", "i", "o", "n", "-",
           "p", "r", "o", "g", "r", "a", "m", "m", "i", "n", "g", "-",
           "i", "n", "t", "e", "r", "f", "a", "c", "e">>,
          <<"a", "p", "i">> >>,
       << <<"u", "s", "e", "r", "-", "i", "n", "t", "e", "r", "f", "a",
           "c", "e">>,
          <<"u", "i">> >>,
       << <<"u", "s", "e", "r", "-", "e", "x", "p", "e", "r", "i", "e",
           "n", "c", "e">>,
          <<"u", "x">> >>,
       << <<"d", "a", "t", "a", "b", "a", "s", "e">>,
          <<"d", "b">> >>,
       << <<"d", "e", "v", "e", "l", "o", "p", "m", "e", "n", "t">>,
          <<"d", "e", "v">> >>,
       << <<"p", "r", "o", "d", "u", "c", "t", "i", "o", "n">>,
          <<"p", "r", "o", "d">> >> >>

\* SlugGenerator.stop_words: the Latin ones, and U+7684
slug_stop_words ==
    { <<"t", "h", "e">>, <<"a">>, <<"a", "n">>, <<"a", "n", "d">>,
      <<"o", "r">>, <<"b", "u", "t">>, <<"i", "n">>, <<"o", "n">>,
      <<"a", "t">>, <<"t", "o">>, <<"f", "o", "r">>, <<"o", "f">>,
      <<"w", "i", "t", "h">>, <<"b", "y">>, <<"i", "s">>,
      <<"a", "r", "e">>, <<"w", "a", "s">>, <<"w", "e", "r", "e">>,
      <<HanDe>> }

\* SlugGenerator._apply_mappings
apply_mappings(text) == ReplaceEach(text, common_mappings)

\* SlugGenerator._chinese_to_pinyin: every run of Chinese characters found
\* in the text is replaced, run after run, by its readings joined by '-'
chinese_to_pinyin(text) ==
    LET runs == RunsOf(text, HanChars)
        order == IdsAscending(DOMAIN runs)
        pinyin_text(match) ==
            Join([n \in DOMAIN match |-> lazy_pinyin(match[n])], <<"-">>)
    IN  ReplaceEach(text, [n \in DOMAIN order |->
                             <<runs[order[n]], pinyin_text(runs[order[n]])>>])

\* unicodedata.normalize('NFKD', c) on one character, the combining marks
\* dropped: the trade mark sign becomes the capitals T and M
nfkd(c) == IF c = TradeMark THEN <<"T", "M">> ELSE <<c>>

\* the replacements of _clean_english_text for one character
replacement(c) ==
    CASE c = "&" -> <<"-", "a", "n", "d", "-">>
      [] c = "+" -> <<"-", "p", "l", "u", "s", "-">>
      [] c = "!" -> <<"-", "e", "x", "c", "l", "a", "m", "a", "t", "i", "o", "n", "-">>
      [] c = "?" -> <<"-", "q", "u", "e", "s", "t", "i", "o", "n", "-">>
      [] c \in {"(", ")", "[", "]", "{", "}"} -> <<"-">>
      [] OTHER -> <<c>>

\* SlugGenerator._clean_english_text
clean_english_text(text) ==
    LET normal == Join([n \in DOMAIN text |-> nfkd(text[n])], <<>>)
    IN  Join([n \in DOMAIN normal |-> replacement(normal[n])], <<>>)

\* SlugGenerator._remove_stop_words
remove_stop_words(text) ==
    LET words == Split(text, "-")
        kept(word) == word # <<>> /\ word \notin slug_stop_words /\ Len(word) > 1
    IN  Join(SelectSeq(words, kept), <<"-">>)

\* SlugGenerator._normalize_slug
normalize_slug(slug) ==
    LET allowed == LowerLetters \cup UpperLetters \cup Range(DecimalDigits) \cup {"-"}
        dashed == [n \in DOMAIN slug |->
                     IF slug[n] \in allowed THEN slug[n] ELSE "-"]
        single(word) == word # <<>>
    IN  Join(SelectSeq(Split(dashed, "-"), single), <<"-">>)

\* SlugGenerator._truncate_slug: cut at max_length, and back at the last
\* hyphen when that lies beyond 0.7 * max_length (last_dash is an index
\* from 0, -1 for none)
truncate_slug(slug, max_length) ==
    IF Len(slug) <= max_length THEN slug
    ELSE LET truncated == SubSeq(slug, 1, max_length)
             dashes == { i \in DOMAIN truncated : truncated[i] = "-" }
             last_dash == IF dashes = {} THEN -1
                          ELSE (CHOOSE i \in dashes : \A k \in dashes : k <= i) - 1
         IN  RStripDash(IF 10 * last_dash > 7 * max_length
                        THEN SubSeq(truncated, 1, last_dash)
                        ELSE truncated)

\* datetime.now().strftime('%Y%m%d') at local time `at`, in half days from
\* the first of January 2026
date_prefix(at) ==
    <<"2", "0", "2", "6", "0", "1", "0", DecimalDigits[(at \div TicksPerDay) + 2]>>

\* SlugGenerator._generate_fallback_slug: 'post-' and '%Y%m%d%H%M%S'
generate_fallback_slug(at) ==
    <<"p", "o", "s", "t", "-">> \o date_prefix(at)
       \o (IF at % TicksPerDay = 0 THEN <<"0", "0">> ELSE <<"1", "2">>) \o <<"0", "0", "0", "0">>

\* SlugGenerator._validate_slug
validate_slug(slug, at) ==
    IF slug = <<>> THEN generate_fallback_slug(at)
    ELSE LET lettered == IF slug[1] \in Range(DecimalDigits)
                         THEN <<"p", "o", "s", "t", "-">> \o slug ELSE slug
         IN  IF Len(lettered) < 3 THEN lettered \o <<"-", "p", "o", "s", "t">> ELSE lettered

\* SlugGenerator.generate_slug, called at local time `at`
generate_slug(title, max_length, use_pinyin, include_date, at) ==
    IF title = <<>> THEN generate_fallback_slug(at)
    ELSE LET cleaned == Strip(Lower(title))
             mapped == apply_mappings(cleaned)
             latin == IF use_pinyin THEN chinese_to_pinyin(mapped) ELSE mapped
             english == clean_english_text(latin)
             stopped == remove_stop_words(english)
             normal == normalize_slug(stopped)
             truncated == truncate_slug(normal, max_length)
             dated == IF include_date
                      THEN date_prefix(at) \o <<"-">> \o truncated
                      ELSE truncated
         IN  validate_slug(dated, at)

\* str(counter)
RECURSIVE Decimal(_)
Decimal(n) ==
    IF n < 10 THEN <<DecimalDigits[n + 1]>>
    ELSE Decimal(n \div 10) \o <<DecimalDigits[(n % 10) + 1]>>

\* (mutation) the counter 1 taken without a look at the slugs in use
ensure_unique_slug_once(slug, used_slugs) ==
    IF slug \notin used_slugs THEN slug ELSE slug \o <<"-">> \o Decimal(1)

\* SlugGenerator._ensure_unique_slug: the slug when it is not in use, else
\* the slug with the first counter from 1 on that is not in use
ensure_unique_slug(slug, used_slugs) ==
    IF slug \notin used_slugs THEN slug
    ELSE LET candidate(counter) == slug \o <<"-">> \o Decimal(counter)
             counter ==
                 CHOOSE c \in 1..(Cardinality(used_slugs) + 1) :
                    /\ candidate(c) \notin used_slugs
                    /\ \A k \in 1..(c - 1) : candidate(k) \in used_slugs
         IN  candidate(counter)

\* SlugGenerator.batch_generate_slugs, from the n-th title on: the slugs by
\* title, and the slugs in use
RECURSIVE BatchFrom(_, _, _, _)
BatchFrom(titles, slugs, used_slugs, at) ==
    IF titles = <<>> THEN slugs
    ELSE LET title == Head(titles)
             base_slug == generate_slug(title, 60, TRUE, FALSE, at)
             unique_slug == ensure_unique_slug(base_slug, used_slugs)
         IN  BatchFrom(Tail(titles),
                       [t \in DOMAIN slugs \cup {title} |->
                          IF t = title THEN unique_slug ELSE slugs[t]],
                       used_slugs \cup {unique_slug}, at)

\* SlugGenerator.batch_generate_slugs, with generate_slug's defaults
batch_generate_slugs(titles, at) == BatchFrom(titles, <<>>, {}, at)

\* Content.slug of a row that was never given one (NULL)
NoSlug == <<>>

\* Content._ensure_unique_slug: the same loop, over the slugs of the rows
\* other than the row itself (id 0 for a row not yet inserted)
content_ensure_unique_slug(base_slug, id) ==
    ensure_unique_slug(base_slug, { contents[i].slug : i \in Ids \ {id} })

\* Content.generate_slug, at local time `at`
content_generate_slug(title, id, at) ==
    content_ensure_unique_slug(generate_slug(title, 60, TRUE, FALSE, at), id)

---------------------------------------------------------------------------
(* Texts, forms and rows the operations are given                         *)

t_none == <<>>
t_blank == <<" ">>
t_ab == <<"a", "b">>
t_Ab == <<"A", "b">>
t_AB == <<"A", "B">>
t_cd == <<"c", "d">>
t_an == <<"a", "n">>
t_a_b == <<"a", " ", "b">>
t_an_ab == <<"a", "n", " ", "a", "b">>
t_bc == <<"b", "c">>
tag_c == <<"c">>
tag_d == <<"d">>

\* ContentForm data: what create_content and edit_content read
Form(title, summary, body, category, tags, is_published, is_featured) ==
    [title |-> title, summary |-> summary, content |-> body,
     category |-> category, tags |-> tags,
     is_published |-> is_published, is_featured |-> is_featured]

\* a row inserted with every column given (fixtures and demo data)
Seed(title, summary, body, category, tags, is_published, is_featured, view_count, like_count) ==
    [title |-> title, summary |-> summary, content |-> body,
     category |-> category, tags |-> tags,
     is_published |-> is_published, is_featured |-> is_featured,
     view_count |-> view_count, like_count |-> like_count]

\* Texts for the SEO analysis: titles, descriptions, bodies and URLs on
\* each side of the lengths the analysis tells apart
seo_words == <<"a", "b", " ">>
seo_sentence == <<"a", "b", " ", "c", "d", ".", " ">>

seo_title_good == <<"a", "b", "c", " ">> \o Repeat(seo_words, 3)
seo_title_long == <<"a", "b", "c", " ">> \o Repeat(seo_words, 20)
seo_title_too_long == <<"a", "b", "c", " ">> \o Repeat(seo_words, 23)
SeoTitles ==
    { t_none, t_ab, seo_title_good, seo_title_long, seo_title_too_long }

SeoDescriptions ==
    { t_none, t_ab, Repeat(seo_words, 40), Repeat(seo_words, 54),
      Repeat(seo_words, 67) }

\* headings, a list, a link, an image with its alt text, and a Chinese
\* character, in five paragraphs
seo_structure ==
    <<"#", " ", "a", "b", "c", NL, NL, "#", "#", " ", "a", "b", "d", NL,
      NL, "-", " ", "a", "b", NL, NL, "[", "a", "b", "]", "(", "c", "d",
      ")", " ", "!", "[", "a", "b", "]", "(", "c", "d", ")", NL, NL, Han,
      " ">>

\* an image without alt text, after a heading
seo_bare_image ==
    <<"#", " ", "a", "b", "c", NL, "!", "[", "]", "(", "c", "d", ")">>

\* one keyword among two hundred words, and among two hundred and eleven
seo_density_half == <<"a", "b", "c">> \o Repeat(<<" ", "a", "b">>, 199)
seo_density_low == <<"a", "b", "c">> \o Repeat(<<" ", "a", "b">>, 210)

\* a second-level heading and no other
seo_h2_only == <<"#", "#", " ", "a", "b", "d">>

seo_body_adequate == seo_structure \o Repeat(seo_sentence, 60)
seo_body_good == seo_structure \o Repeat(seo_sentence, 100)
SeoBodies ==
    { t_none, t_blank, t_ab, <<"a", "b", "c">>, seo_structure, seo_bare_image,
      Repeat(<<"[", "a", "b", "]", "(", "c", "d", ")", " ">>, 11),
      Repeat(seo_words, 120), seo_body_adequate, seo_body_good,
      seo_density_half, seo_density_low, seo_h2_only }

SeoUrls ==
    { t_none, <<"/", "a">>, <<"?">>, <<"a", "?">>, Repeat(<<"a">>, 101) }

\* Titles for the slugs: empty, stop words and brackets only, words parted
\* by blanks and by hyphens, Chinese characters, a sign that NFKD spells
\* in capitals, words longer than max_length, short ones
slug_the_cat == <<"t", "h", "e", " ", "c", "a", "t">>
slug_long_word == <<"a", "b", "c", " ", "d", "e", "f", "g", "h", "i", "j", "k", "l", "m", "n", "o", "p">>
SlugTitles ==
    { t_none, t_ab, t_Ab, <<"t", "h", "e">>, <<"(", ")">>, <<"[", "t", "h", "e", "]">>, slug_the_cat, <<"t", "h", "e", "-", "c", "a", "t">>,
      <<"c", "a", "t", " ", "a", "n", "d", " ", "d", "o", "g">>, <<"c", "a", "t", " ", "&", " ", "d", "o", "g">>, <<HanDe, "-", HanZhong>>,
      <<HanDe, HanZhong>>, <<HanDe>>, <<"b", "r", "a", "n", "d", TradeMark>>,
      slug_long_word, <<"a", "b", "c", "d", "e", "f", "g", "h", " ", "i", "j", "k", "l", "m", "n", "o", "p">>, <<"1", "a", "b", "c", " ", "d", "e", "f">>, <<"p", "y", "t", "h", "o", "n", " ", "d", "b">> }

\* max_length: shorter than a word, about a word, and the 60 of the column
SlugLengths == {2, 10, 60}

\* Content.auto_optimize_seo, the summary: a row saved without a summary
\* gets the leading sentences of its body (Content.generate_auto_summary;
\* the texts of the model are one sentence, shorter than 150 characters)
auto_summary(summary, body) ==
    IF summary = <<>> /\ body # <<>>
       /\ DOMAIN seo_extract_words(body) # {} /\ Strip(body) # <<>>
    THEN Strip(body)
    ELSE summary

---------------------------------------------------------------------------
(* Operations                                                             *)

NoResponse == [op |-> "none"]

Idle == response = NoResponse

\* content_management.create_content: a row from the form, with the
\* column defaults (view_count 0, like_count 0, created_at utcnow()), while
\* the table holds fewer than `capacity` rows
CreateContent(form, capacity) ==
    /\ Idle
    /\ Len(contents) < capacity
    /\ contents' = Append(contents,
          Row(form.title, auto_summary(form.summary, form.content),
              form.content, form.category, form.tags,
              form.is_published, form.is_featured, 0, 0, now,
              content_generate_slug(form.title, 0, now + tz)))
    /\ tag_table' = IF form.tags # {} THEN update_tags(tag_table, form.tags)
                    ELSE tag_table
    /\ now' = now + 1
    /\ UNCHANGED <<tz, response, pending, search_engine>>

\* a row inserted directly, as the system test's fixture and the demo data do
SeedContent(seed, capacity) ==
    /\ Idle
    /\ Len(contents) < capacity
    /\ contents' = Append(contents,
          Row(seed.title, seed.summary, seed.content, seed.category,
              seed.tags, seed.is_published, seed.is_featured,
              seed.view_count, seed.like_count, now, NoSlug))
    /\ tag_table' = add_tags(tag_table, seed.tags)
    /\ now' = now + 1
    /\ UNCHANGED <<tz, response, pending, search_engine>>

\* content_management.edit_content: form.populate_obj, the slug made again
\* when the title changed or the row had none, the summary filled in again
\* when left empty, the tags replaced
EditContent(id, form) ==
    /\ Idle
    /\ id \in Ids
    /\ contents' = [contents EXCEPT ![id] =
          Row(form.title, auto_summary(form.summary, form.content),
              form.content, form.category, form.tags,
              form.is_published, form.is_featured,
              @.view_count, @.like_count, @.created_at,
              IF form.title # @.title \/ @.slug = NoSlug
              THEN content_generate_slug(form.title, id, now + tz)
              ELSE @.slug)]
    /\ \A name \in form.tags : usage_count(tag_table, name) < MaxUsage
    /\ tag_table' = IF form.tags # {} THEN update_tags(tag_table, form.tags)
                    ELSE tag_table
    /\ UNCHANGED <<now, tz, response, pending, search_engine>>

\* content_management.bulk_action, action 'publish' or 'unpublish', on the
\* rows whose ids were posted
BulkPublish(content_ids, publish) ==
    /\ Idle
    /\ content_ids # {}
    /\ content_ids \subseteq Ids
    /\ contents' = [i \in DOMAIN contents |->
                      IF i \in content_ids
                      THEN [contents[i] EXCEPT !.is_published = publish]
                      ELSE contents[i]]
    /\ UNCHANGED <<now, tz, response, tag_table, pending, search_engine>>

Publish(content_ids) == BulkPublish(content_ids, TRUE)

Unpublish(content_ids) == BulkPublish(content_ids, FALSE)

\* content.detail: a published item's page counts the view (404 otherwise)
ViewDetail(id) ==
    /\ Idle
    /\ id \in Published
    /\ contents[id].view_count < MaxViews
    /\ contents' = [contents EXCEPT ![id].view_count = @ + 1]
    /\ UNCHANGED <<now, tz, response, tag_table, pending, search_engine>>

\* time passes
Tick ==
    /\ Idle
    /\ now < MaxTime
    /\ now' = now + 1
    /\ UNCHANGED <<contents, tz, response, tag_table, pending, search_engine>>

\* (mutation) a search makes stop words of its keywords
FullTextSearchTuning(query, category, page, per_page, sort_by) ==
    /\ Idle
    /\ response' = full_text_search(query, category, page, per_page, sort_by)
    /\ search_engine' =
          [search_engine EXCEPT !.stop_words = @ \cup extract_keywords(query)]
    /\ UNCHANGED <<contents, now, tz, tag_table, pending>>

\* main.search: a query goes to SearchEngine.full_text_search
FullTextSearch(query, category, page, per_page, sort_by) ==
    /\ Idle
    /\ response' = full_text_search(query, category, page, per_page, sort_by)
    /\ UNCHANGED <<contents, now, tz, tag_table, pending, search_engine>>

\* main.search_related_content: get_or_404, then get_related_content
RelatedContent(id, limit, method) ==
    /\ Idle
    /\ id \in Ids
    /\ response' = [op |-> "related", source |-> id, limit |-> limit,
                    method |-> method,
                    results |-> get_related_content(id, limit, method)]
    /\ UNCHANGED <<contents, now, tz, tag_table, pending, search_engine>>

\* main.trending_content
TrendingContent(days, limit) ==
    /\ Idle
    /\ response' = [op |-> "trending", days |-> days, limit |-> limit,
                    results |-> get_trending_content(days, limit)]
    /\ UNCHANGED <<contents, now, tz, tag_table, pending, search_engine>>

\* SearchEngine.get_category_stats
CategoryStats ==
    /\ Idle
    /\ response' = [op |-> "stats", results |-> get_category_stats]
    /\ UNCHANGED <<contents, now, tz, tag_table, pending, search_engine>>

\* main.search_suggestions
SearchSuggestions(query, limit) ==
    /\ Idle
    /\ response' = [op |-> "suggest", query |-> query, limit |-> limit,
                    results |-> get_search_suggestions(query, limit)]
    /\ UNCHANGED <<contents, now, tz, tag_table, pending, search_engine>>

\* Content.get_full_seo_analysis: the analysis of a body with its title,
\* description and URL (a missing one is passed as '')
AnalyzeContent(content, title, meta_description, url) ==
    /\ Idle
    /\ response' = [op |-> "seo", content |-> content, title |-> title,
                    meta_description |-> meta_description, url |-> url,
                    analysis |-> analyze_content(content, title,
                                                 meta_description, url)]
    /\ UNCHANGED <<contents, now, tz, tag_table, pending, search_engine>>

\* slug_generator.generate_slug
GenerateSlug(title, max_length, use_pinyin, include_date) ==
    /\ Idle
    /\ response' = [op |-> "slug", title |-> title, max_length |-> max_length,
                    use_pinyin |-> use_pinyin, include_date |-> include_date,
                    slug |-> generate_slug(title, max_length, use_pinyin,
                                           include_date, now + tz)]
    /\ UNCHANGED <<contents, now, tz, tag_table, pending, search_engine>>

\* slug_generator.batch_generate_slugs
BatchGenerateSlugs(titles) ==
    /\ Idle
    /\ response' = [op |-> "batch", titles |-> titles,
                    slugs |-> batch_generate_slugs(titles, now + tz)]
    /\ UNCHANGED <<contents, now, tz, tag_table, pending, search_engine>>

\* content_management.create_content up to the commit, for one of the
\* requests served at a time: the row is built and its slug made against
\* the rows committed so far
BeginCreate(request, form, capacity) ==
    /\ Idle
    /\ now < MaxTime
    /\ \A p \in pending : p.request # request
    /\ Len(contents) + Cardinality({ p \in pending : p.status = "built" })
          < capacity
    /\ pending' = pending \cup
          { [request |-> request, form |-> form, status |-> "built",
             created_at |-> now,
             slug |-> content_generate_slug(form.title, 0, now + tz)] }
    /\ now' = now + 1
    /\ UNCHANGED <<contents, tz, response, tag_table, search_engine>>

\* content_management.create_content: db.session.add(content) and
\* db.session.commit().  The INSERT fails on the unique index of
\* Content.slug when a row holds the slug; the view then rolls back and
\* reports the failure.
CommitCreate(request) ==
    /\ \E p \in pending :
          /\ p.request = request
          /\ p.status = "built"
          /\ IF \E i \in Ids : contents[i].slug = p.slug
             THEN /\ pending' = (pending \ {p})
                                   \cup { [p EXCEPT !.status = "failed"] }
                  /\ UNCHANGED <<contents, tag_table>>
             ELSE /\ contents' = Append(contents,
                        Row(p.form.title,
                            auto_summary(p.form.summary, p.form.content),
                            p.form.content, p.form.category, p.form.tags,
                            p.form.is_published, p.form.is_featured, 0, 0,
                            p.created_at, p.slug))
                  /\ tag_table' = IF p.form.tags # {}
                                  THEN update_tags(tag_table, p.form.tags)
                                  ELSE tag_table
                  /\ pending' = (pending \ {p})
                                   \cup { [p EXCEPT !.status = "created"] }
    /\ UNCHANGED <<now, tz, response, search_engine>>

\* content_management.create_content returns: the redirect after the
\* creation, or the form again after the failure
EndCreate(request) ==
    /\ \E p \in pending :
          /\ p.request = request
          /\ p.status \in {"created", "failed"}
          /\ pending' = pending \ {p}
    /\ UNCHANGED <<contents, now, tz, response, tag_table, search_engine>>

\* Content.update_tags on a committed row, for one of the requests served
\* at a time, each on a row of its own: every name is looked up with
\* Tag.query.filter_by(name=...).first(), and usage_count + 1 is put on the
\* tag in the request's session (0: the tag is not there and is made)
BeginUpdateTags(request, id, tag_names) ==
    /\ Idle
    /\ id \in Ids
    /\ tag_names # {}
    /\ \A p \in pending : p.request # request /\ p.id # id
    /\ \A name \in tag_names : usage_count(tag_table, name) < MaxUsage
    /\ pending' = pending \cup
          { [request |-> request, id |-> id, status |-> "read",
             found |-> { name \in tag_names : tag_rows(tag_table, name) # {} },
             usage_count |-> [name \in tag_names |->
                                usage_count(tag_table, name) + 1]] }
    /\ UNCHANGED <<contents, now, tz, response, tag_table, search_engine>>

\* db.session.commit() after update_tags: the usage_count of the session
\* is written to every tag that was found, a tag that was not found is
\* inserted (the commit fails on the unique index of Tag.name if a tag of
\* the name was committed meanwhile), and the row gets the tags
CommitUpdateTags(request) ==
    /\ \E p \in pending :
          /\ p.request = request
          /\ p.status = "read"
          /\ LET names == DOMAIN p.usage_count
                 made == IdsAscending({ n \in 1..Cardinality(names \ p.found) : TRUE })
                 new == CHOOSE list \in [DOMAIN made -> names \ p.found] :
                           Range(list) = names \ p.found
             IN  IF \E name \in names \ p.found : tag_rows(tag_table, name) # {}
                 THEN /\ pending' = (pending \ {p})
                                       \cup { [p EXCEPT !.status = "failed"] }
                      /\ UNCHANGED <<contents, tag_table>>
                 ELSE /\ tag_table' =
                           [i \in DOMAIN tag_table |->
                              IF tag_table[i].name \in names
                              THEN [tag_table[i] EXCEPT
                                      !.usage_count = p.usage_count[tag_table[i].name]]
                              ELSE tag_table[i]]
                           \o [n \in DOMAIN new |->
                                 [name |-> new[n], usage_count |-> 1]]
                      /\ contents' = [contents EXCEPT ![p.id].tags = names]
                      /\ pending' = (pending \ {p})
                                       \cup { [p EXCEPT !.status = "committed"] }
    /\ UNCHANGED <<now, tz, response, search_engine>>

\* the request returns
EndUpdateTags(request) ==
    /\ \E p \in pending :
          /\ p.request = request
          /\ p.status \in {"committed", "failed"}
          /\ pending' = pending \ {p}
    /\ UNCHANGED <<contents, now, tz, response, tag_table, search_engine>>

\* what is left at the id of a deleted row: ids are not given again
DeletedRow ==
    Row(<<>>, <<>>, <<>>, "deleted", {}, FALSE, FALSE, 0, 0, 0, NoSlug)

\* the rows Content.query.get_or_404 finds
Live == { i \in Ids : contents[i] # DeletedRow }

\* content_management.delete_content: the row goes, and with it its rows
\* in content_tags; no usage_count changes
DeleteContent(id) ==
    /\ Idle
    /\ id \in Live
    /\ contents' = [contents EXCEPT ![id] = DeletedRow]
    /\ UNCHANGED <<now, tz, response, tag_table, pending, search_engine>>

\* Tag.update_usage_counts, the maintenance task
UpdateUsageCounts ==
    /\ Idle
    /\ tag_table' = update_usage_counts(tag_table, contents)
    /\ UNCHANGED <<contents, now, tz, response, pending, search_engine>>

\* Tag.cleanup_unused_tags: the tags with usage_count 0 are deleted, with
\* their rows in content_tags, and their number is returned
CleanupUnusedTags ==
    /\ Idle
    /\ LET unused == unused_tags(tag_table)
           used(tag) == tag.name \notin unused
       IN  /\ tag_table' = SelectSeq(tag_table, used)
           /\ contents' = [i \in DOMAIN contents |->
                             [contents[i] EXCEPT !.tags = @ \ unused]]
           /\ response' = [op |-> "cleanup", deleted |-> Cardinality(unused)]
    /\ UNCHANGED <<now, tz, pending, search_engine>>

\* the orders list(set(keywords)) may have for the keywords of a query
KeywordLists(query) ==
    LET keywords == extract_keywords(query)
    IN  { list \in [1..Cardinality(keywords) -> keywords] :
            Range(list) = keywords }

\* the loop that builds the results of full_text_search, for one row the
\* query finds: its highlights, for the keywords in the order of the list
Highlight(id, query, keywords) ==
    /\ Idle
    /\ keywords \in KeywordLists(query)
    /\ id \in search_candidates(Range(keywords), NoCategory)
    /\ response' = [op |-> "highlight", content |-> id, query |-> query,
                    keywords |-> keywords,
                    highlight |-> generate_highlight(contents[id], keywords)]
    /\ UNCHANGED <<contents, now, tz, tag_table, pending, search_engine>>

\* the request ends: its result goes to the caller
Deliver ==
    /\ ~Idle
    /\ response' = NoResponse
    /\ UNCHANGED <<contents, now, tz, tag_table, pending, search_engine>>

---------------------------------------------------------------------------
(* Specifications                                                         *)

\* an empty database on a server whose local time is UTC
Init ==
    /\ contents = <<>>
    /\ now = 0
    /\ tz = 0
    /\ response = NoResponse
    /\ tag_table = <<>>
    /\ pending = {}
    /\ search_engine = SearchEngine

Limits == 1..MaxLimit
Pages == 1..MaxPage
PageSizes == 1..MaxPerPage
Days == 1..MaxDays

(* Full-text search over rows inserted directly *)

SearchSeeds ==
    { Seed(t_ab, t_none, t_cd, "tech", {}, TRUE, FALSE, 0, 0),
      Seed(t_cd, t_none, t_an_ab, "tech", {}, TRUE, FALSE, 0, 0),
      Seed(t_cd, t_none, t_AB, "tech", {}, TRUE, FALSE, 0, 0),
      Seed(t_bc, t_none, t_bc, "tech", {t_ab}, TRUE, FALSE, 0, 0),
      Seed(t_AB, t_none, t_ab, "tech", {}, FALSE, FALSE, 0, 0),
      Seed(t_cd, t_ab, t_cd, "life", {}, TRUE, TRUE, 150, 5) }

SearchQueries == { t_none, t_blank, t_an, t_a_b, t_Ab, t_an_ab }

SearchCategories == { NoCategory, "tech" }

NextSearch ==
    \/ \E seed \in SearchSeeds : SeedContent(seed, MaxItems)
    \/ \E query \in SearchQueries, category \in SearchCategories,
          page \in Pages, per_page \in PageSizes, sort_by \in SortModes :
          FullTextSearch(query, category, page, per_page, sort_by)
    \/ Deliver

SpecSearch == Init /\ [][NextSearch]_vars

(* Searches for a whole query that the rows hold in several fields *)

BonusSeeds ==
    { Seed(t_an_ab, t_an_ab, t_an_ab, "tech", {}, TRUE, FALSE, 0, 0),
      Seed(t_cd, t_an_ab, t_an_ab, "tech", {}, TRUE, FALSE, 0, 0),
      Seed(t_cd, t_none, t_an_ab, "tech", {}, TRUE, TRUE, 0, 0),
      Seed(t_ab, t_none, t_cd, "tech", {t_ab}, TRUE, FALSE, 150, 0) }

BonusQueries == { t_ab, t_an_ab }

NextBonus ==
    \/ \E seed \in BonusSeeds : SeedContent(seed, MaxItems)
    \/ \E query \in BonusQueries, sort_by \in {"relevance", "date"} :
          FullTextSearch(query, NoCategory, 1, MaxItems, sort_by)
    \/ Deliver

SpecBonus == Init /\ [][NextBonus]_vars

(* Tags adopted, replaced and cleared, items deleted, and the maintenance
   tasks run at any time *)

TagForms ==
    { Form(t_ab, t_none, t_cd, "tech", {tag_c}, TRUE, FALSE),
      Form(t_cd, t_ab, t_bc, "life", {tag_c, tag_d}, TRUE, TRUE),
      Form(t_ab, t_none, t_cd, "tech", {}, TRUE, FALSE) }

NextUnmaintained ==
    \/ \E form \in TagForms : CreateContent(form, MaxItems)
    \/ \E id \in Live, form \in TagForms : EditContent(id, form)
    \/ \E id \in Live : DeleteContent(id)
    \/ CleanupUnusedTags
    \/ Deliver

SpecUnmaintained == Init /\ [][NextUnmaintained]_vars

NextTags ==
    \/ NextUnmaintained
    \/ UpdateUsageCounts

SpecTags == Init /\ [][NextTags]_vars

(* Highlights of rows that hold the keywords once, several times, in
   capitals, across sentences and in a long sentence *)

hl_ab_twice == <<"a", "b", ".", " ", "a", "b", " ", "a", "b">>
hl_sentences ==
    <<"c", "d", ".", " ", "a", "b", " ", "b", "c", "!", " ", "a", "b", "c",
      " ", "b", "c", " ", "a", "b">>
hl_long ==
    <<"n", ".">> \o <<"A", "b", " ">> \o Repeat(<<"n">>, 203) \o <<" ", "a", "b">>
      \o <<"?", " ", "c", "d">>
hl_mark_ab == <<"m", "a", "r", "k", " ", "a", "b">>

HighlightSeeds ==
    { Seed(t_ab, t_none, t_cd, "tech", {}, TRUE, FALSE, 0, 0),
      Seed(t_Ab, t_ab, hl_ab_twice, "tech", {}, TRUE, FALSE, 0, 0),
      Seed(<<"a", "b", "c">>, t_AB, hl_sentences, "tech", {}, TRUE, FALSE, 0, 0),
      Seed(hl_mark_ab, t_cd, t_none, "tech", {}, TRUE, FALSE, 0, 0),
      Seed(t_cd, t_none, hl_long, "tech", {}, TRUE, FALSE, 0, 0),
      Seed(t_bc, hl_ab_twice, t_an_ab, "tech", {}, TRUE, FALSE, 0, 0) }

HighlightQueries ==
    { t_ab, t_AB, t_cd, t_an_ab, <<"a", "b", " ", "c", "d">>,
      <<"a", "b", " ", "b", "c">>, <<"a", "b", "c", " ", "a", "b">>,
      <<"a", "b", " ", "a", "r">>, <<"m", "a", "r", "k", " ", "a", "b">>,
      <<"a", "b", " ", "b", "c", " ", "c", "d">> }

NextHighlight ==
    \/ \E seed \in HighlightSeeds : SeedContent(seed, MaxHighlighted)
    \/ \E id \in Ids, query \in HighlightQueries :
          \E keywords \in KeywordLists(query) : Highlight(id, query, keywords)
    \/ Deliver

SpecHighlight == Init /\ [][NextHighlight]_vars

(* The life of the items: created, edited, published and unpublished in
   the admin pages, and queried meanwhile *)

Forms ==
    { Form(t_ab, t_none, t_cd, "tech", {tag_c}, TRUE, FALSE),
      Form(t_ab, t_none, t_cd, "tech", {tag_c}, FALSE, FALSE),
      Form(t_cd, t_ab, t_bc, "life", {tag_c, tag_d}, TRUE, TRUE) }

Queries == {t_ab, t_bc}

Next ==
    \/ \E form \in Forms : CreateContent(form, MaxItems)
    \/ \E id \in Ids, form \in Forms : EditContent(id, form)
    \/ \E content_ids \in SUBSET Ids : Publish(content_ids)
    \/ \E content_ids \in SUBSET Ids : Unpublish(content_ids)
    \/ \E query \in Queries, category \in SearchCategories, page \in Pages,
          per_page \in PageSizes, sort_by \in SortModes :
          FullTextSearch(query, category, page, per_page, sort_by)
    \/ \E id \in Ids, limit \in Limits, method \in Methods :
          RelatedContent(id, limit, method)
    \/ \E days \in Days, limit \in Limits : TrendingContent(days, limit)
    \/ Deliver

Spec == Init /\ [][Next]_vars

(* Suggestions while items are created and read *)

SuggestForms ==
    { Form(t_ab, t_none, t_cd, "tech", {t_ab}, TRUE, FALSE),
      Form(t_an_ab, t_none, t_cd, "tech", {t_ab, t_bc}, TRUE, FALSE),
      Form(t_AB, t_none, t_cd, "tech", {t_bc, t_an_ab}, FALSE, FALSE) }

SuggestQueries == { t_none, <<"a">>, t_ab, t_bc }

NextSuggest ==
    \/ \E form \in SuggestForms : CreateContent(form, MaxItems)
    \/ \E id \in Ids : ViewDetail(id)
    \/ \E query \in SuggestQueries, limit \in Limits :
          SearchSuggestions(query, limit)
    \/ Deliver

SpecSuggest == Init /\ [][NextSuggest]_vars

(* SEO analyses of texts of every length class *)

NextSeo ==
    \/ \E content \in SeoBodies, title \in SeoTitles,
          meta_description \in SeoDescriptions, url \in SeoUrls :
          AnalyzeContent(content, title, meta_description, url)
    \/ Deliver

SpecSeo == Init /\ [][NextSeo]_vars

(* Slugs of titles of every kind *)

NextSlug ==
    \/ \E title \in SlugTitles, max_length \in SlugLengths,
          use_pinyin \in BOOLEAN, include_date \in BOOLEAN :
          GenerateSlug(title, max_length, use_pinyin, include_date)
    \/ Tick
    \/ Deliver

SpecSlug == Init /\ [][NextSlug]_vars

(* Slugs given to items one after the other *)

AssignForms ==
    { Form(t_ab, t_none, t_cd, "tech", {}, TRUE, FALSE),
      Form(t_Ab, t_none, t_cd, "tech", {}, TRUE, FALSE),
      Form(<<"a", "b", " ", "p", "o", "s", "t", " ", "1">>, t_none, t_cd,
           "tech", {}, TRUE, FALSE),
      Form(slug_the_cat, t_none, t_cd, "tech", {}, TRUE, FALSE) }

AssignTitles == { form.title : form \in AssignForms }

NextAssign ==
    \/ \E form \in AssignForms : CreateContent(form, MaxItems)
    \/ \E id \in Ids, form \in AssignForms : EditContent(id, form)
    \/ \E first \in AssignTitles, second \in AssignTitles :
          BatchGenerateSlugs(<<first, second, t_ab>>)
    \/ Deliver

SpecAssign == Init /\ [][NextAssign]_vars

(* Items created by requests served at the same time *)

Requests == 1..MaxRequests

NextRace ==
    \/ \E request \in Requests, form \in AssignForms :
          BeginCreate(request, form, MaxItems)
    \/ \E request \in Requests : CommitCreate(request)
    \/ \E request \in Requests : EndCreate(request)

SpecRace == Init /\ [][NextRace]_vars

(* Tags given to items by requests served at the same time *)

TagLists == { {tag_c}, {tag_d} }

NextTagRace ==
    \/ \E form \in TagForms : CreateContent(form, MaxItems)
    \/ \E request \in Requests, id \in Ids, tag_names \in TagLists :
          BeginUpdateTags(request, id, tag_names)
    \/ \E request \in Requests : CommitUpdateTags(request)
    \/ \E request \in Requests : EndUpdateTags(request)

SpecTagRace == Init /\ [][NextTagRace]_vars

(* Every operation of the search engine, between creations and page
   views *)

NextEngine ==
    \/ \E form \in Forms : CreateContent(form, MaxItems)
    \/ \E id \in Ids : ViewDetail(id)
    \/ \E query \in Queries, per_page \in PageSizes :
          FullTextSearch(query, NoCategory, 1, per_page, "relevance")
    \/ \E id \in Ids, query \in Queries :
          \E keywords \in KeywordLists(query) : Highlight(id, query, keywords)
    \/ \E id \in Ids, method \in Methods : RelatedContent(id, MaxLimit, method)
    \/ \E days \in Days : TrendingContent(days, MaxLimit)
    \/ \E query \in Queries : SearchSuggestions(query, MaxLimit)
    \/ CategoryStats
    \/ Deliver

SpecEngine == Init /\ [][NextEngine]_vars

(* Recommendations over rows inserted directly *)

RelatedSeeds ==
    { Seed(t_ab, t_none, t_bc, "tech", {tag_c, tag_d}, TRUE, FALSE, 0, 0),
      Seed(t_cd, t_none, t_cd, "life", {tag_c}, TRUE, FALSE, 0, 0),
      Seed(t_cd, t_none, t_cd, "tech", {}, TRUE, FALSE, 1, 0),
      Seed(t_ab, t_none, t_none, "life", {}, TRUE, FALSE, 0, 0),
      Seed(t_ab, t_none, t_bc, "tech", {tag_c, tag_d}, FALSE, FALSE, 0, 0) }

NextRelated ==
    \/ \E seed \in RelatedSeeds : SeedContent(seed, MaxRelated)
    \/ \E id \in Ids, limit \in Limits, method \in Methods :
          RelatedContent(id, limit, method)
    \/ Deliver

SpecRelated == Init /\ [][NextRelated]_vars

(* Trending items on a server in any time zone *)

InitAnyZone ==
    /\ contents = <<>>
    /\ now = 0
    /\ tz \in -MaxOffset..MaxOffset
    /\ response = NoResponse
    /\ tag_table = <<>>
    /\ pending = {}
    /\ search_engine = SearchEngine

TrendingSeeds ==
    { Seed(t_ab, t_none, t_cd, "tech", {}, TRUE, FALSE, 0, 0),
      Seed(t_cd, t_none, t_ab, "life", {}, TRUE, FALSE, 1, 0),
      Seed(t_ab, t_none, t_cd, "tech", {}, FALSE, FALSE, 2, 0) }

NextTrending ==
    \/ \E seed \in TrendingSeeds : SeedContent(seed, MaxItems)
    \/ \E id \in Ids : ViewDetail(id)
    \/ Tick
    \/ \E days \in Days, limit \in Limits : TrendingContent(days, limit)
    \/ Deliver

SpecTrending == InitAnyZone /\ [][NextTrending]_vars

---------------------------------------------------------------------------
(* The publication filter                                                 *)

\* the items of the response at hand
Returned ==
    CASE response.op = "search" ->
           { response.results[i].content : i \in DOMAIN response.results }
      [] response.op \in {"related", "trending"} -> Range(response.results)
      [] OTHER -> {}

\* C1: whatever was created, edited, published and unpublished, no item
\* with is_published = FALSE is in the result of a search, of a
\* recommendation (by any method) or of the trending list.
C1_PublishedOnly ==
    \A i \in Returned : contents[i].is_published

\* a search that returns an item while an unpublished item, which was
\* published when created, has a keyword of the query in its body
C1_Witness ==
    /\ response.op = "search" /\ response.results # <<>>
    /\ \E i \in Ids :
          /\ ~contents[i].is_published
          /\ contents[i].category = "life"
          /\ \E k \in response.keywords : IsSubstr(k, contents[i].content)

\* the same for a recommendation: an unpublished item shares a tag and the
\* category with the source
C1_WitnessRelated ==
    /\ response.op = "related" /\ response.results # <<>>
    /\ \E i \in Ids \ {response.source} :
          /\ ~contents[i].is_published
          /\ contents[i].tags \cap contents[response.source].tags # {}
          /\ contents[i].category = contents[response.source].category

\* the same for the trending list: an unpublished item is in the window
C1_WitnessTrending ==
    /\ response.op = "trending" /\ response.results # <<>>
    /\ \E i \in Ids :
          /\ ~contents[i].is_published
          /\ contents[i].created_at >= since_date(response.days)

---------------------------------------------------------------------------
(* Properties of full-text search                                         *)

SearchAnswered == response.op = "search" /\ response.queried

RECURSIVE Flatten(_)
Flatten(seqs) == IF seqs = <<>> THEN <<>> ELSE Head(seqs) \o Flatten(Tail(seqs))

\* the results of page p of the search that `response` answers
PageOf(p) ==
    full_text_search(response.query, response.category, p,
                     response.per_page, response.sort_by).results

\* pages 1, 2, ... of that search, to one page beyond the last and beyond
\* the largest page asked for
Pages1ToEnd ==
    LET last == IF response.total_pages > MaxPage
                THEN response.total_pages ELSE MaxPage
    IN  [p \in 1..(last + 1) |-> PageOf(p)] \o <<>>

\* the value a result is ordered by under sort_by
OrderedBy(sort_by, result) ==
    CASE sort_by = "relevance" -> result.score
      [] sort_by = "date" -> contents[result.content].created_at
      [] sort_by = "views" -> contents[result.content].view_count
      [] sort_by = "likes" -> contents[result.content].like_count

\* keyword k occurs in the text, whatever the case of its letters
Occurs(k, text) == IsSubstr(Lower(k), Lower(text))

\* the items a search for `keywords` in `category` has to count
Eligible(keywords, category) ==
    { i \in Ids :
        /\ contents[i].is_published
        /\ category = NoCategory \/ contents[i].category = category
        /\ \E k \in keywords : \/ Occurs(k, contents[i].title)
                               \/ Occurs(k, contents[i].summary)
                               \/ Occurs(k, contents[i].content) }

\* C2: total_pages is ceil(total / per_page); the pages 1..total_pages are
\* full but the last, hold total results together, and one after the other
\* list every candidate once in the order of the sort; the page asked for is
\* its slice of that list, and every page beyond total_pages is empty.
C2_Pagination ==
    SearchAnswered =>
      \E r \in {response} : \E pages \in {Pages1ToEnd} :
      \E all \in {Flatten(SubSeq(pages, 1, r.total_pages))} :
      \E ids \in {[i \in DOMAIN all |-> all[i].content]} :
      \E ordered \in {[i \in DOMAIN all |-> OrderedBy(r.sort_by, all[i])]} :
          /\ r.total_pages * r.per_page >= r.total
          /\ r.total_pages > 0 => (r.total_pages - 1) * r.per_page < r.total
          /\ r.total_pages >= 0
          /\ Len(all) = r.total
          /\ Cardinality(Range(ids)) = Len(ids)
          /\ Range(ids) = Eligible(r.keywords, r.category)
          /\ \A i, j \in DOMAIN all : i < j => ordered[i] >= ordered[j]
          /\ \A p \in 1..r.total_pages :
                p < r.total_pages => Len(pages[p]) = r.per_page
          /\ pages[1] = SubSeq(all, 1, Min(r.per_page, r.total))
          /\ r.results = SubSeq(all, Min((r.page - 1) * r.per_page, r.total) + 1,
                                Min(r.page * r.per_page, r.total))
          /\ \A p \in DOMAIN pages : p > r.total_pages => pages[p] = <<>>

\* the second of two pages of three results
C2_Witness ==
    /\ SearchAnswered
    /\ response.total = 3 /\ response.per_page = 2
    /\ response.page = 2 /\ Len(response.results) = 1

\* C3: under sort_by = 'relevance' the scores of the results of a page
\* never increase along the page.
C3_RelevanceOrder ==
    (response.op = "search" /\ response.sort_by = "relevance") =>
      \A i, j \in DOMAIN response.results :
         i < j => response.results[i].score >= response.results[j].score

\* a page sorted by relevance whose later result came first in the table
C3_Witness ==
    /\ SearchAnswered /\ response.sort_by = "relevance"
    /\ \E i, j \in DOMAIN response.results :
          /\ i < j
          /\ response.results[i].score > response.results[j].score
          /\ response.results[i].content > response.results[j].content

\* C4: a query that is blank, or that yields no keyword, gets the empty
\* result (no results, total 0, total_pages 0) and the content table is not
\* read: a search that read the table echoes a query that is not blank and
\* has a keyword, and one that did not read it returns nothing.
C4_EmptyQuery ==
    response.op = "search" =>
      IF response.queried
      THEN /\ Strip(response.query) # <<>>
           /\ extract_keywords(response.query) # {}
           /\ response.keywords = extract_keywords(response.query)
      ELSE /\ response.results = <<>>
           /\ response.total = 0
           /\ response.total_pages = 0

\* the empty result, returned over a table with a published row
C4_Witness ==
    /\ response.op = "search" /\ ~response.queried
    /\ response.results = <<>> /\ response.total = 0
    /\ Published # {}

MatchedIn(K, text) == { k \in K : Occurs(k, text) }

\* the bonus for the whole raw query: 20 in the title, else 15 in the
\* summary, else 10 in the body
WholeQueryBonus(doc, query) ==
    IF Occurs(query, doc.title) THEN 20
    ELSE IF Occurs(query, doc.summary) /\ doc.summary # <<>> THEN 15
    ELSE IF Occurs(query, doc.content) /\ doc.content # <<>> THEN 10
    ELSE 0

\* A has keywords in its title, B has the same keywords in its body and none
\* in its title, and the two agree in summary, tags, is_featured, view_count
TitleAgainstBody(A, B, K) ==
    /\ A.summary = B.summary /\ A.tags = B.tags
    /\ A.is_featured = B.is_featured /\ A.view_count = B.view_count
    /\ MatchedIn(K, A.title) # {}
    /\ MatchedIn(K, B.content) = MatchedIn(K, A.title)
    /\ MatchedIn(K, B.title) = {}

\* C6 as claimed: the document with the keywords in its title scores
\* strictly higher than the one with the same keywords only in its body.
C6_TitleBeatsBody_Claimed ==
    SearchAnswered =>
      \E all \in {response.results} : \A i, j \in DOMAIN all :
         TitleAgainstBody(contents[all[i].content], contents[all[j].content],
                          response.keywords)
         => all[i].score > all[j].score

\* C6 as amended: it does so when the bonus for the whole raw query that
\* the body-only document earns does not exceed the one the other earns.
C6_TitleBeatsBody ==
    SearchAnswered =>
      \E all \in {response.results} : \A i, j \in DOMAIN all :
         ( /\ TitleAgainstBody(contents[all[i].content],
                               contents[all[j].content], response.keywords)
           /\ WholeQueryBonus(contents[all[j].content], response.query)
                <= WholeQueryBonus(contents[all[i].content], response.query) )
         => all[i].score > all[j].score

\* such a pair on one page, neither document holding the whole raw query
C6_Witness ==
    /\ SearchAnswered
    /\ \E all \in {response.results} : \E i, j \in DOMAIN all :
          LET A == contents[all[i].content]
              B == contents[all[j].content]
          IN  /\ TitleAgainstBody(A, B, response.keywords)
              /\ WholeQueryBonus(B, response.query)
                   = WholeQueryBonus(A, response.query)
              /\ all[i].score > all[j].score

\* what the keywords, the featured flag and the views of a document earn,
\* in hundredths
ScoreApart(doc, K) ==
    100 * ( 4 * Cardinality(MatchedIn(K, doc.title))
          + 3 * Cardinality(MatchedIn(K, doc.summary))
          + 2 * Cardinality(MatchedIn(K, doc.content))
          + Cardinality({ k \in K : \E t \in doc.tags : Occurs(k, t) })
          + (IF doc.is_featured THEN 5 ELSE 0) )
    + (IF doc.view_count > 100 THEN Min(doc.view_count, 1000) ELSE 0)

\* the fields of a document that hold the whole raw query
HoldingQuery(doc, query) ==
    { f \in {"title", "summary", "content"} : Occurs(query, doc[f]) }

\* C23: exactly one bonus for the whole raw query applies: every result
\* scores what its keywords, flag and views earn plus 20 if the title
\* holds the raw query, otherwise 15 if the summary does, otherwise 10 if
\* the body does, otherwise nothing; the bonuses never add up.
C23_OneBonus ==
    SearchAnswered =>
      \E all \in {response.results} : \A i \in DOMAIN all :
         LET doc == contents[all[i].content]
             held == HoldingQuery(doc, response.query)
         IN  all[i].score - ScoreApart(doc, response.keywords)
               = 100 * ( IF "title" \in held THEN 20
                         ELSE IF "summary" \in held THEN 15
                         ELSE IF "content" \in held THEN 10
                         ELSE 0 )

\* a result that holds the raw query in its title, summary and body, next
\* to one that holds it in summary and body and one that holds it in the
\* body alone
C23_Witness ==
    /\ SearchAnswered
    /\ \E all \in {response.results} :
          \A held \in { {"title", "summary", "content"}, {"summary", "content"},
                        {"content"} } :
             \E i \in DOMAIN all :
                HoldingQuery(contents[all[i].content], response.query) = held

---------------------------------------------------------------------------
(* Properties of the highlights                                           *)

HighlightAnswered == response.op = "highlight"

\* the text without the markers it holds, each taken out once, from the
\* left
RECURSIVE Unmark(_)
Unmark(text) ==
    IF text = <<>> THEN <<>>
    ELSE IF Len(text) >= Len(MarkOpen)
            /\ SubSeq(text, 1, Len(MarkOpen)) = MarkOpen
         THEN Unmark(SubSeq(text, Len(MarkOpen) + 1, Len(text)))
    ELSE IF Len(text) >= Len(MarkClose)
            /\ SubSeq(text, 1, Len(MarkClose)) = MarkClose
         THEN Unmark(SubSeq(text, Len(MarkClose) + 1, Len(text)))
    ELSE <<Head(text)>> \o Unmark(Tail(text))

\* C27: for every title and summary and every list of keywords, in
\* whatever order, the highlight is the text with markers put in and
\* nothing else changed: taking the markers out gives the text back, also
\* when keywords overlap or occur in the marker text.
C27_MarkersOnly ==
    HighlightAnswered =>
       LET row == contents[response.content]
           highlight == response.highlight
       IN  /\ Unmark(highlight.title) = row.title
           /\ row.summary # <<>> => Unmark(highlight.summary) = row.summary



\* the sentences of the body of the highlighted row
BodySentences == split_sentences(contents[response.content].content)

\* the keywords of the highlight that the sentence holds, each counted
\* once
KeywordsHeld(sentence) ==
    Cardinality({ k \in Range(response.keywords) : Occurs(k, sentence) })

\* the places of the sentence at which a keyword of the highlight stands
KeywordOccurrences(sentence) ==
    Cardinality({ at \in Range(response.keywords) \X DOMAIN sentence :
                    LET last == at[2] + Len(at[1]) - 1
                    IN  /\ last <= Len(sentence)
                        /\ Lower(SubSeq(sentence, at[2], last)) = at[1] })

\* the sentence cut to 200 characters and an ellipsis, then marked
SnippetOf(sentence) ==
    mark_keywords(IF Len(sentence) > 200
                  THEN SubSeq(sentence, 1, 200) \o <<".", ".", ".">>
                  ELSE sentence,
                  response.keywords)

\* C28 as claimed: the snippet is built from a body sentence that no other
\* sentence exceeds in keyword occurrences, from the first sentence,
\* without a marker, if no sentence holds a keyword; the sentence is cut to
\* 200 characters and an ellipsis before the markers are added.
C28_Snippet_Claimed ==
    (HighlightAnswered /\ contents[response.content].content # <<>>) =>
       LET sentences == BodySentences
           most == { n \in DOMAIN sentences :
                       \A m \in DOMAIN sentences :
                          KeywordOccurrences(sentences[m])
                             <= KeywordOccurrences(sentences[n]) }
           snippet == response.highlight.snippet
       IN  IF \A n \in DOMAIN sentences : KeywordOccurrences(sentences[n]) = 0
           THEN /\ snippet = SnippetOf(sentences[1])
                /\ ~IsSubstr(MarkOpen, snippet)
           ELSE \E n \in most : snippet = SnippetOf(sentences[n])

\* C28 as amended: the snippet is built from the first of the body
\* sentences that hold the most keywords, each keyword counted once in a
\* sentence however often it occurs there; from the first sentence,
\* without a marker, if no sentence holds a keyword; the sentence is cut to
\* 200 characters and an ellipsis before the markers are added.
C28_Snippet ==
    (HighlightAnswered /\ contents[response.content].content # <<>>) =>
       LET sentences == BodySentences
           most == { n \in DOMAIN sentences :
                       \A m \in DOMAIN sentences :
                          KeywordsHeld(sentences[m]) <= KeywordsHeld(sentences[n]) }
           first == CHOOSE n \in most : \A m \in most : n <= m
           snippet == response.highlight.snippet
       IN  IF \A n \in DOMAIN sentences : KeywordsHeld(sentences[n]) = 0
           THEN /\ snippet = SnippetOf(sentences[1])
                /\ ~IsSubstr(MarkOpen, snippet)
           ELSE snippet = SnippetOf(sentences[first])

\* a snippet of the first sentence with a keyword, while a later sentence
\* holds the keyword more often
C28_Witness ==
    /\ HighlightAnswered /\ contents[response.content].content # <<>>
    /\ LET sentences == BodySentences
       IN  \E n, m \in DOMAIN sentences :
              /\ n < m
              /\ response.highlight.snippet = SnippetOf(sentences[n])
              /\ KeywordsHeld(sentences[n]) = KeywordsHeld(sentences[m])
              /\ 0 < KeywordOccurrences(sentences[n])
              /\ KeywordOccurrences(sentences[n])
                    < KeywordOccurrences(sentences[m])

---------------------------------------------------------------------------
(* Properties of the recommendations                                      *)

RelatedAnswered(method) == response.op = "related" /\ response.method = method

\* x stands before y in seq
Precedes(seq, x, y) ==
    \E i, j \in DOMAIN seq : i < j /\ seq[i] = x /\ seq[j] = y

\* C7: whatever the item, the limit and the method, the related items do
\* not include the item itself.
C7_NotItself ==
    response.op = "related" => response.source \notin Range(response.results)

\* related items of a published item, which has its own tags, category and
\* keywords
C7_Witness ==
    /\ response.op = "related" /\ response.results # <<>>
    /\ response.source \in Published
    /\ contents[response.source].tags # {}
    /\ contents[response.source].content # <<>>

\* the three lists the mixed recommendation is blended from
TagList == Range(get_related_by_tags(response.source, response.limit * 2))
CategoryList == Range(get_related_by_category(response.source, response.limit))
KeywordList == Range(get_related_by_keywords(response.source, response.limit))

\* the score x has in related_contents (0: x is not in it)
MixedScore(x) ==
    LET scores == mixed_scores(response.source, response.limit)
        at == { i \in DOMAIN scores : scores[i].content = x }
    IN  IF at = {} THEN 0 ELSE scores[CHOOSE i \in at : TRUE].score

SharesTag(x) == contents[x].tags \cap contents[response.source].tags # {}
SameCategory(x) == contents[x].category = contents[response.source].category
Candidates == Published \ {response.source}

\* C8 as claimed: every published item that shares a tag with the source
\* and is of its category has weight 15 (or more) and is ranked before
\* every item that matches by tag only.
C8_TagAndCategory_Claimed ==
    RelatedAnswered("mixed") =>
      \A x \in Candidates :
         (SharesTag(x) /\ SameCategory(x)) =>
            /\ MixedScore(x) >= 15
            /\ \A y \in Candidates :
                  (SharesTag(y) /\ ~SameCategory(y) /\ y \in Range(response.results))
                  => Precedes(response.results, x, y)

\* C8 as amended: every item that is in the tag-mode list (the first
\* 2 * limit by shared tags) and in the category-mode list (the first limit
\* of the category) has weight 15 or more, and is ranked before every item
\* of the tag-mode list that is not in the category-mode list.
C8_TagAndCategory ==
    RelatedAnswered("mixed") =>
      \E tags \in {TagList} : \E category \in {CategoryList} :
      \A x \in tags \cap category :
          /\ MixedScore(x) >= 15
          /\ \A y \in tags \ category :
                y \in Range(response.results)
                => Precedes(response.results, x, y)

\* an item in both lists ranked before a tag-only item that is newer, and
\* so stands before it in the tag-mode list
C8_Witness ==
    /\ RelatedAnswered("mixed")
    /\ \E x \in TagList \cap CategoryList : \E y \in TagList \ CategoryList :
          /\ Precedes(response.results, x, y)
          /\ Precedes(get_related_by_tags(response.source, response.limit * 2),
                      y, x)

\* the weight C9 gives an item: 10 in the tag-mode list, 5 in the
\* category-mode list, 3 in the keyword-mode list, summed
SummedWeight(x, tags, category, keywords) ==
    (IF x \in tags THEN 10 ELSE 0) + (IF x \in category THEN 5 ELSE 0)
    + (IF x \in keywords THEN 3 ELSE 0)

\* C9: the mixed list has at most limit items, none twice, in the order of
\* their summed weights, the largest first; it is the top of the blended
\* lists: no item left out weighs more than one returned.
C9_MixedOrder ==
    RelatedAnswered("mixed") =>
      \E tags \in {TagList} : \E category \in {CategoryList} :
      \E keywords \in {KeywordList} : \E res \in {response.results} :
      LET W(x) == SummedWeight(x, tags, category, keywords)
          listed == tags \cup category \cup keywords
      IN  /\ Len(res) <= response.limit
          /\ Cardinality(Range(res)) = Len(res)
          /\ Range(res) \subseteq listed
          /\ Len(res) = Min(response.limit, Cardinality(listed))
          /\ \A i, j \in DOMAIN res : i < j => W(res[i]) >= W(res[j])
          /\ \A x \in listed \ Range(res) : \A i \in DOMAIN res : W(res[i]) >= W(x)

\* a tag-only item, then a category-only item, then a keyword-only item
C9_Witness ==
    /\ RelatedAnswered("mixed")
    /\ \E tags \in {TagList} : \E category \in {CategoryList} :
       \E keywords \in {KeywordList} : \E res \in {response.results} :
       \E i, j, k \in DOMAIN res :
          /\ i < j /\ j < k
          /\ SummedWeight(res[i], tags, category, keywords) = 10
          /\ SummedWeight(res[j], tags, category, keywords) = 5
          /\ SummedWeight(res[k], tags, category, keywords) = 3

---------------------------------------------------------------------------
(* Properties of the trending list                                        *)

\* created no longer than `days` days ago
WithinLast(days, i) == now - contents[i].created_at <= days * TicksPerDay

\* C10: the trending list has at most limit items, each published and
\* created within the last `days` days, the most viewed first and, among
\* equally viewed items, the newest first.
C10_Trending ==
    response.op = "trending" =>
      \E res \in {response.results} :
        /\ Len(res) <= response.limit
        /\ \A i \in DOMAIN res :
              /\ res[i] \in Published
              /\ WithinLast(response.days, res[i])
        /\ \A i, j \in DOMAIN res :
              i < j =>
                \/ contents[res[i]].view_count > contents[res[j]].view_count
                \/ /\ contents[res[i]].view_count = contents[res[j]].view_count
                   /\ contents[res[i]].created_at >= contents[res[j]].created_at

---------------------------------------------------------------------------
(* Properties of the suggestions                                          *)

\* the published items whose title holds the query, whatever the case
TitlesMatching(query) ==
    { i \in Ids : contents[i].is_published /\ Occurs(query, contents[i].title) }

---------------------------------------------------------------------------
(* Properties of the SEO analysis                                         *)

SeoAnswered == response.op = "seo"

\* C12: whatever body, title, description and URL are analysed, empty ones
\* included, the score is an integer from 0 to 100 and no more than
\* max_score.
C12_ScoreBounds ==
    SeoAnswered =>
        /\ response.analysis.score \in 0..100
        /\ response.analysis.score <= response.analysis.max_score

\* the best score the analysis gives is reached: every step at its best
C12_Witness ==
    /\ SeoAnswered
    /\ response.analysis.score = 99
    /\ response.analysis.issues = <<>>

\* the analysis of a body, a title, a description and a URL that are all
\* empty
EmptyAnalysis ==
    /\ SeoAnswered
    /\ response.content = <<>> /\ response.title = <<>>
    /\ response.meta_description = <<>> /\ response.url = <<>>

PriorityOrder ==
    <<"add a catching title", "write a description", "add content">>

\* content_analysis['length'] is 'too_short': a body that is not empty and
\* has fewer than 300 characters besides blanks and line feeds
TooShort(content) ==
    /\ content # <<>>
    /\ Cardinality({ p \in DOMAIN content : content[p] \notin Whitespace }) < 300

\* C14: the grade is A exactly from 80 points on, B from 70 to 79, C from
\* 60 to 69 and D below 60; priority_recommendations is empty from 70
\* points on, and below 70 it lists, in this order, the missing title, the
\* missing description and the too short body, each exactly when it applies.
C14_GradesAndPriorities ==
    SeoAnswered =>
        LET a == response.analysis
            applies == <<response.title = <<>>,
                         response.meta_description = <<>>,
                         TooShort(response.content)>>
            listed(n) == \E k \in DOMAIN a.priority_recommendations :
                            a.priority_recommendations[k] = PriorityOrder[n]
        IN  /\ a.grade = "A" <=> a.score >= 80
            /\ a.grade = "B" <=> (70 <= a.score /\ a.score < 80)
            /\ a.grade = "C" <=> (60 <= a.score /\ a.score < 70)
            /\ a.grade = "D" <=> a.score < 60
            /\ a.score >= 70 => a.priority_recommendations = <<>>
            /\ \A n \in 1..3 : listed(n) <=> (a.score < 70 /\ applies[n])
            /\ \A k, l \in DOMAIN a.priority_recommendations :
                  k < l =>
                     \E n, o \in 1..3 :
                        /\ n < o
                        /\ a.priority_recommendations[k] = PriorityOrder[n]
                        /\ a.priority_recommendations[l] = PriorityOrder[o]

\* all three pieces of advice are given at once
C14_Witness ==
    /\ SeoAnswered
    /\ Len(response.analysis.priority_recommendations) = 3

\* every grade is given, B and C close to their thresholds
C14_WitnessB == SeoAnswered /\ response.analysis.score \in 70..74

C14_WitnessC == SeoAnswered /\ response.analysis.score \in 60..64

C14_WitnessA == SeoAnswered /\ response.analysis.score \in 80..84

\* The keyword-density component of the analysis that `response` answers,
\* with the keywords of the title and body (the words longer than two
\* characters that are no stop word) and the greatest of their densities,
\* in hundredths of a percent (0 without keywords)
KeywordReport ==
    LET words == seo_extract_words(Lower(response.title \o <<" ">>
                                          \o response.content))
        total == BagCardinality(words)
        keywords == { w \in DOMAIN words :
                        Len(w) > 2 /\ w \notin seo_stop_words }
        all == { density(words[w], total) : w \in keywords } \cup {0}
    IN  [keywords |-> keywords,
         max_density |-> CHOOSE d \in all : \A e \in all : e <= d,
         part |-> analyze_keywords(response.content, response.title)]

\* the extra ten points, or ten points and the issue, or ten points and
\* the recommendation
DensityVerdict(part, optimal, too_high, too_low) ==
    IF optimal THEN part = Part(20, <<>>, <<>>)
    ELSE /\ part.score = 10
         /\ too_high => part.issues = <<"keyword stuffing">>
         /\ too_low => part.recommendations = <<"use keywords more">>
         /\ part.issues # <<>> \/ part.recommendations # <<>>

\* C24 as claimed: with keywords, the extra 10 points are awarded if and
\* only if the greatest density d satisfies 0.5 < d <= 5.
C24_DensityBand_Claimed ==
    SeoAnswered =>
      LET report == KeywordReport
          d == report.max_density
      IN  report.keywords # {} =>
            DensityVerdict(report.part, 50 < d /\ d <= 500, d > 500, d <= 50)

\* C24 as amended: with keywords, the extra 10 points are awarded if and
\* only if the greatest density d satisfies 0.5 <= d <= 5; a greater d
\* yields 10 points and the too-high issue, a smaller one 10 points and the
\* too-low recommendation.
C24_DensityBand ==
    SeoAnswered =>
      LET report == KeywordReport
          d == report.max_density
      IN  report.keywords # {} =>
            DensityVerdict(report.part, 50 <= d /\ d <= 500, d > 500, d < 50)

\* an analysis of a text whose greatest density is 0.5 exactly, which
\* earns the 20 points
C24_Witness ==
    /\ SeoAnswered
    /\ LET report == KeywordReport
       IN  /\ report.keywords # {}
           /\ report.max_density = 50
           /\ report.part.score = 20

\* C25: whenever a URL is supplied the technical component gives its 10
\* baseline points; a URL longer than 100 characters raises the issue and
\* leaves the points as they are; a URL that holds a character other than
\* letters, digits and hyphens raises the recommendation.
C25_UrlComponent ==
    (SeoAnswered /\ response.url # <<>>) =>
       LET url == response.url
           odd == { p \in DOMAIN url :
                      url[p] \notin Letters \cup Digits \cup {"-"} }
       IN  /\ analyze_technical_seo(url).score = 10
           /\ Len(url) > 100
                 => "url too long" \in Range(response.analysis.issues)
           /\ odd # {}
                 => "cleaner url" \in Range(response.analysis.recommendations)

\* the text has a heading of exactly `level` number signs
HasHeading(s, level) ==
    \E i \in 1..(Len(s) - level) :
       /\ \A k \in i..(i + level - 1) : s[k] = "#"
       /\ s[i + level] \in Whitespace
       /\ i = 1 \/ s[i - 1] # "#"

\* C26: the body-structure check gives the 3 points of the top-level
\* heading if and only if the body has a top-level heading, raises the
\* missing-H1 issue otherwise, also when deeper headings are there, and
\* gives the 2 points of the second-level heading on their own account.
C26_TopLevelHeading ==
    SeoAnswered =>
       LET part == analyze_content_structure(response.content)
           h1 == HasHeading(response.content, 1)
           h2 == HasHeading(response.content, 2)
           \* the points of the lists and of the links
           others == (IF "use lists" \in Range(part.recommendations)
                      THEN 0 ELSE 2)
                   + (IF "add links" \in Range(part.recommendations)
                      THEN 0 ELSE 2)
       IN  /\ part.score = (IF h1 THEN 3 ELSE 0) + (IF h2 THEN 2 ELSE 0) + others
           /\ ("no h1" \in Range(part.issues)) <=> ~h1
           /\ ("add h2" \in Range(part.recommendations)) <=> ~h2

---------------------------------------------------------------------------
(* Properties of the slugs                                                *)

SlugAnswered == response.op = "slug"

\* the words of a slug: what stands between its hyphens
SlugWords(slug) == Range(Split(slug, "-"))

\* C15: for every title, those of punctuation, brackets or stop words only
\* included, every max_length, use_pinyin and include_date, the slug is
\* not empty, holds only the characters a-z, 0-9 and '-', neither starts
\* nor ends with a hyphen and has no two hyphens in a row.
C15_WellFormed ==
    SlugAnswered =>
        LET slug == response.slug
        IN  /\ slug # <<>>
            /\ \A n \in DOMAIN slug :
                  slug[n] \in LowerLetters \cup Range(DecimalDigits) \cup {"-"}
            /\ slug[1] # "-"
            /\ slug[Len(slug)] # "-"
            /\ \A n \in 1..(Len(slug) - 1) : ~(slug[n] = "-" /\ slug[n + 1] = "-")

\* The slug of the same call without a limit on its length
Untruncated ==
    generate_slug(response.title, 20 * Len(response.title) + 20,
                  response.use_pinyin, response.include_date, now + tz)

\* C16: the slug is at most max_length characters long, and each of its
\* words is a whole word of the slug that the same title gets without a
\* limit.
C16_Truncated ==
    SlugAnswered =>
        /\ Len(response.slug) <= response.max_length
        /\ SlugWords(response.slug) \subseteq SlugWords(Untruncated)

\* The words of a title, parted at blanks and hyphens
TitleWords(title) ==
    Range(Split([n \in DOMAIN title |->
                   IF title[n] = " " THEN "-" ELSE title[n]], "-"))

\* A title made of letters, digits and Chinese characters, with blanks and
\* hyphens between its words
PlainTitle(title) ==
    \A n \in DOMAIN title :
       Lower(title)[n] \in LowerLetters \cup Range(DecimalDigits)
                             \cup HanChars \cup {" ", "-"}

\* a stop word as it would stand in a slug: itself, or its readings
Transliterated(word) ==
    IF \A n \in DOMAIN word : word[n] \in HanChars
    THEN Join([n \in DOMAIN word |-> lazy_pinyin(word[n])], <<"-">>)
    ELSE word

\* C17: for a title whose words are parted by blanks or hyphens, no stop
\* word of the title is a word of the slug, neither as it is nor
\* transliterated.
C17_StopWordsStripped ==
    (SlugAnswered /\ PlainTitle(response.title)) =>
        \A word \in TitleWords(Lower(response.title)) \cap slug_stop_words :
           /\ word \notin SlugWords(response.slug)
           /\ Transliterated(word) \notin SlugWords(response.slug)

\* The slug that Content.generate_slug starts from for a title
BaseSlug(title) == generate_slug(title, 60, TRUE, FALSE, now + tz)

\* slug is what the resolver owes for `base` against the slugs `used`: the
\* base when it is free, else the base with the least counter from 1 on
\* that makes it free
Resolved(slug, base, used) ==
    IF base \notin used THEN slug = base
    ELSE \E counter \in 1..Cardinality(used) :
            /\ slug = base \o <<"-">> \o Decimal(counter)
            /\ slug \notin used
            /\ \A k \in 1..(counter - 1) :
                  base \o <<"-">> \o Decimal(k) \in used

\* C18: whatever slugs were given one after the other, no two rows hold
\* the same slug, and no two titles of a batch; and a row that is created
\* or given another title gets the base slug of its title when no other
\* row holds it, else the base with the least counter from 1 on that no
\* other row holds.
C18_UniqueSlugs ==
    /\ [](\A i, j \in Ids :
             (i # j /\ contents[i].slug # NoSlug) =>
                contents[i].slug # contents[j].slug)
    /\ [](response.op = "batch" =>
             \A t, u \in DOMAIN response.slugs :
                t # u => response.slugs[t] # response.slugs[u])
    /\ [][\A i \in DOMAIN contents' :
             (i \notin Ids \/ contents'[i].title # contents[i].title) =>
                Resolved(contents'[i].slug, BaseSlug(contents'[i].title),
                         { contents'[j].slug : j \in DOMAIN contents' \ {i} })]_vars

\* three rows whose titles have one base slug: the third has the counter 2
C18_Witness ==
    \E i \in Ids :
       /\ contents[i].slug = BaseSlug(contents[i].title) \o <<"-", "2">>
       /\ \E j, k \in Ids :
             /\ contents[j].slug = BaseSlug(contents[i].title)
             /\ contents[k].slug = BaseSlug(contents[i].title) \o <<"-", "1">>

\* a batch of three titles, the first with the base slug that the others
\* get with the counter 1: the last gets the counter 2
C18_WitnessBatch ==
    /\ response.op = "batch"
    /\ Cardinality(DOMAIN response.slugs) = 3
    /\ response.slugs[t_ab] = BaseSlug(t_ab) \o <<"-", "2">>

\* C19: however two creation requests whose titles have one base slug are
\* interleaved, both are created, with different slugs: none fails, none
\* is rolled back.
C19_BothCreated ==
    /\ \A p \in pending : p.status # "failed"
    /\ \A i, j \in Ids : i # j => contents[i].slug # contents[j].slug

\* C20: update_tags run again with the names an item already got from it
\* leaves the item's tags and every usage_count as they were after the
\* first run.
C20_UpdateTagsIdempotent ==
    [][\A id \in Ids, form \in Forms :
          (EditContent(id, form) /\ form.tags = contents[id].tags) =>
             /\ contents'[id].tags = contents[id].tags
             /\ \A name \in form.tags :
                   usage_count(tag_table', name) = usage_count(tag_table, name)]_vars

---------------------------------------------------------------------------
(* Properties of the shared search engine                                 *)

\* the answers of the search engine's operations
EngineOps == {"search", "highlight", "related", "trending", "suggest", "stats"}

\* C22: the shared SearchEngine instance keeps the stop_words and weights
\* it was made with, and a step in which an operation of the search engine
\* answers changes no content row, no tag row and nothing of the instance.
C22_EngineReadOnly ==
    /\ [](search_engine = SearchEngine)
    /\ [][(response' # response /\ response'.op \in EngineOps) =>
            /\ contents' = contents
            /\ tag_table' = tag_table
            /\ search_engine' = search_engine]_vars

\* a search answered with results, among rows that were viewed and tags
\* that were counted
C22_Witness ==
    /\ response.op = "search" /\ response.results # <<>>
    /\ \E id \in Ids : contents[id].view_count > 0
    /\ \E i \in DOMAIN tag_table : tag_table[i].usage_count > 1
    /\ search_engine = SearchEngine

---------------------------------------------------------------------------
(* Properties of the tags                                                 *)

\* C21: the increments of a usage_count are serialized: every commit of
\* an update_tags that adopts an existing tag raises the committed
\* usage_count of the tag by one, however the executions interleave, so
\* that n of them raise it by n.
C21_NoLostIncrement ==
    [][\A request \in Requests : \A p \in pending :
          ( /\ p.request = request
            /\ CommitUpdateTags(request)
            /\ \E q \in pending' : q.request = request /\ q.status = "committed" )
          => \A name \in p.found :
                usage_count(tag_table', name) = usage_count(tag_table, name) + 1]_vars

\* every tag's usage_count is the number of items that carry the tag
Counted ==
    \A i \in DOMAIN tag_table :
       tag_table[i].usage_count = association_count(contents, tag_table[i].name)

\* the names in the tag table
TagNames == { tag_table[i].name : i \in DOMAIN tag_table }

C30_NeverUndercounted ==
    /\ [](\A i \in DOMAIN tag_table :
            /\ tag_table[i].usage_count >= 0
            /\ tag_table[i].usage_count
                 >= association_count(contents, tag_table[i].name))
    /\ [][CleanupUnusedTags =>
            \A id \in Ids : contents'[id].tags = contents[id].tags]_vars

\* a tag counted more often than items carry it, after an item that
\* carried it was deleted and another had its tags cleared
C30_Witness ==
    /\ \E id \in Ids : contents[id] = DeletedRow
    /\ \E id \in Live : contents[id].tags = {}
    /\ \E i \in DOMAIN tag_table :
          /\ association_count(contents, tag_table[i].name) > 0
          /\ tag_table[i].usage_count
               > association_count(contents, tag_table[i].name)

=====
